---- MODULE Spec2Model ----
(***************************************************************************)
(* Model of the ClamAV API SDK for Go (REST client and gRPC client).       *)
(*                                                                         *)
(* Spec      : one ScanMultiple session of the gRPC client: the sender     *)
(*             goroutine, the receiver goroutine, the result channel, the  *)
(*             session context, the bidirectional stream, the server and   *)
(*             the caller.                                                 *)
(* FairSpec  : Spec with the fairness the Go scheduler and the context's   *)
(*             deadline give.                                              *)
(* HappySpec : a session in which nothing fails and the caller drains.     *)
(* CallSpec  : one call of any other operation of either client, from the  *)
(*             call to its return.                                         *)
(* CallbackSpec : Spec with ScanMultipleCallback draining the channel.     *)
(* FnSpec    : the pure functions of the SDK (error mapping, predicates,   *)
(*             option handling, timeouts), each applied once to an input.  *)
(***************************************************************************)
EXTENDS Integers, Sequences, FiniteSets, TLC

\* ---------------------------------------------------------------- bounds
MaxFiles == 2      \* most input files of one ScanMultiple call
MaxData == 3       \* longest payload, in bytes
MaxChunk == 2      \* largest configured chunk size
MaxWrap == 2       \* most errors between a *url.Error and its innermost cause
MaxOpts == 2       \* most options given to NewClient
MaxTime == 3       \* longest timeout and latest deadline, in ticks
MaxMuts == 2       \* most mutations of the header map after NewClient

\* ------------------------------------------------------------- constants
NoName == 0        \* the empty filename ""
defaultTimeout == 2 \* defaultTimeout (30 s) of both clients, in ticks of 15 s
defaultChunkSize == 2 \* defaultChunkSize (64 KB), in units of 32 KB
defaultMaxMessageSize == 3 \* defaultMaxMessageSize (200 MB), in units above the chunk's

\* The zero value of a response.
NoResp == [Status |-> "", Filename |-> NoName]

Min(a, b) == IF a < b THEN a ELSE b

\* A payload of n bytes; byte k has value k, so that a reordering or a loss
\* of bytes changes the payload.
Payload(n) == [k \in 1..n |-> k]

\* --------------------------------------------------------- error taxonomy
CodeConnection == "connection_error"
CodeTimeout == "timeout"
CodeValidation == "validation_error"
CodeService == "service_error"

\* An error value: kind "nil" (no error), "sdk" (*clamav.Error with Code and
\* StatusCode), "status" (a raw gRPC status error; cause is its code) or
\* "plain" (any other raw error; cause names it). cause of an SDK error is the
\* kind of error it wraps.
NilErr == [kind |-> "nil", Code |-> "", StatusCode |-> 0, cause |-> ""]

StatusErr(code) == [kind |-> "status", Code |-> "", StatusCode |-> 0, cause |-> code]

PlainErr(name) == [kind |-> "plain", Code |-> "", StatusCode |-> 0, cause |-> name]

NewConnectionError(cause) ==
  [kind |-> "sdk", Code |-> CodeConnection, StatusCode |-> 0, cause |-> cause]

NewTimeoutError(cause) ==
  [kind |-> "sdk", Code |-> CodeTimeout, StatusCode |-> 0, cause |-> cause]

NewValidationError(cause) ==
  [kind |-> "sdk", Code |-> CodeValidation, StatusCode |-> 0, cause |-> cause]

NewServiceError(statusCode, cause) ==
  [kind |-> "sdk", Code |-> CodeService, StatusCode |-> statusCode, cause |-> cause]

\* fmt.Errorf("...: %w", err): a foreign error that wraps err.
Wrap(err) == [kind |-> "wrap", Code |-> "", StatusCode |-> 0, cause |-> err]

\* An errors.As that looks at err only, not at what it wraps.
As_Direct(err) == err

\* errors.As(err, &e) with e a *clamav.Error: the first SDK error on the way
\* from err through what it wraps, or the innermost error when there is none.
RECURSIVE As(_)
As(err) == IF err.kind = "wrap" THEN As(err.cause) ELSE err

\* errors.As(err, &e) finds a *clamav.Error, and its Code is the kind's.
IsConnectionError(err) == As(err).kind = "sdk" /\ As(err).Code = CodeConnection

IsTimeoutError(err) == As(err).kind = "sdk" /\ As(err).Code = CodeTimeout

IsValidationError(err) == As(err).kind = "sdk" /\ As(err).Code = CodeValidation

IsServiceError(err) == As(err).kind = "sdk" /\ As(err).Code = CodeService

\* ------------------------------------------------------------ gRPC errors
GrpcCodes ==
  {"Canceled", "Unknown", "InvalidArgument", "DeadlineExceeded", "NotFound",
   "AlreadyExists", "PermissionDenied", "ResourceExhausted", "FailedPrecondition",
   "Aborted", "OutOfRange", "Unimplemented", "Internal", "Unavailable",
   "DataLoss", "Unauthenticated"}

\* A grpcCodeToHTTP whose table lacks the codes that have no 5xx equivalent.
grpcCodeToHTTP_ServerOnly(c) ==
  CASE c \in {"Internal", "DataLoss", "Unknown"} -> 500
    [] c = "Unimplemented" -> 501
    [] c = "Unavailable" -> 503
    [] c = "DeadlineExceeded" -> 504
    [] OTHER -> 500

grpcCodeToHTTP(c) ==
  CASE c = "OK" -> 200
    [] c = "InvalidArgument" -> 400
    [] c = "Unauthenticated" -> 401
    [] c = "PermissionDenied" -> 403
    [] c = "NotFound" -> 404
    [] c = "AlreadyExists" -> 409
    [] c = "ResourceExhausted" -> 429
    [] c = "Canceled" -> 499
    [] c \in {"Internal", "DataLoss", "Unknown"} -> 500
    [] c = "Unimplemented" -> 501
    [] c = "Unavailable" -> 503
    [] c = "DeadlineExceeded" -> 504
    [] OTHER -> 500

\* A mapGRPCError without the case of codes.Canceled.
mapGRPCError_NoCanceled(err) ==
  IF err.kind = "nil" THEN NilErr
  ELSE IF err.kind # "status" THEN NewConnectionError(err.kind)
  ELSE CASE err.cause = "InvalidArgument" -> NewValidationError("status")
         [] err.cause = "Internal" -> NewServiceError(500, "status")
         [] err.cause = "DeadlineExceeded" -> NewTimeoutError("status")
         [] err.cause = "Unavailable" -> NewConnectionError("status")
         [] OTHER -> NewServiceError(grpcCodeToHTTP(err.cause), "status")

mapGRPCError(err) ==
  IF err.kind = "nil" THEN NilErr
  ELSE IF err.kind # "status" THEN NewConnectionError(err.kind)
  ELSE CASE err.cause = "InvalidArgument" -> NewValidationError("status")
         [] err.cause = "Internal" -> NewServiceError(500, "status")
         [] err.cause = "DeadlineExceeded" -> NewTimeoutError("status")
         [] err.cause = "Canceled" -> NewTimeoutError("status")
         [] err.cause = "Unavailable" -> NewConnectionError("status")
         [] OTHER -> NewServiceError(grpcCodeToHTTP(err.cause), "status")

\* ------------------------------------------------------------ REST errors
\* A transport error of http.Client.Do is the chain of errors from the
\* outermost to the innermost (each wraps the next): "url" (*url.Error),
\* "op" (*net.OpError), "dns" (*net.DNSError), "ctxCanceled"
\* (context.Canceled), "ctxDeadline" (context.DeadlineExceeded), "timeout"
\* (an error whose Timeout() is true, as of http.Client.Timeout), "other".
ErrTags == {"url", "op", "dns", "ctxCanceled", "ctxDeadline", "timeout", "other"}

\* errors.As / errors.Is: some error of the chain is tag.
Has(chain, tag) == \E k \in 1..Len(chain) : chain[k] = tag

\* The error wrapped by the first *url.Error of the chain (urlErr.Err).
UrlInner(chain) ==
  LET k == CHOOSE j \in 1..Len(chain) : chain[j] = "url" /\ \A h \in 1..(j - 1) : chain[h] # "url"
  IN SubSeq(chain, k + 1, Len(chain))

\* Timeout() of the error at the head of the chain.
RECURSIVE IsTimeout(_)
IsTimeout(chain) ==
  IF chain = <<>> THEN FALSE
  ELSE CASE Head(chain) \in {"ctxDeadline", "timeout"} -> TRUE
         [] Head(chain) \in {"url", "op", "dns"} -> IsTimeout(Tail(chain))
         [] OTHER -> FALSE

\* A classifyTransportError that does not ask the *url.Error for Timeout().
classifyTransportError_NoTimeoutCheck(chain) ==
  IF chain = <<>> THEN NilErr
  ELSE IF chain = <<"ctxCanceled">> THEN NewTimeoutError("transport")
  ELSE IF chain = <<"ctxDeadline">> THEN NewTimeoutError("transport")
  ELSE IF Has(chain, "url") /\ Has(UrlInner(chain), "ctxCanceled") THEN NewTimeoutError("transport")
  ELSE IF Has(chain, "url") /\ Has(UrlInner(chain), "ctxDeadline") THEN NewTimeoutError("transport")
  ELSE NewConnectionError("transport")

classifyTransportError(chain) ==
  IF chain = <<>> THEN NilErr
  ELSE IF chain = <<"ctxCanceled">> THEN NewTimeoutError("transport")
  ELSE IF chain = <<"ctxDeadline">> THEN NewTimeoutError("transport")
  ELSE IF Has(chain, "url") /\ IsTimeout(UrlInner(chain)) THEN NewTimeoutError("transport")
  ELSE IF Has(chain, "url") /\ Has(UrlInner(chain), "ctxCanceled") THEN NewTimeoutError("transport")
  ELSE IF Has(chain, "url") /\ Has(UrlInner(chain), "ctxDeadline") THEN NewTimeoutError("transport")
  ELSE IF Has(chain, "op") THEN NewConnectionError("transport")
  ELSE IF Has(chain, "dns") THEN NewConnectionError("transport")
  ELSE NewConnectionError("transport")

\* A handleErrorResponse that reports 502 as a connection failure.
handleErrorResponse_BadGatewayConnection(statusCode, decodes) ==
  IF ~decodes THEN NewServiceError(statusCode, "decode")
  ELSE CASE statusCode = 400 -> NewValidationError("")
         [] statusCode = 413 -> NewValidationError("")
         [] statusCode = 499 -> NewTimeoutError("")
         [] statusCode = 502 -> NewConnectionError("")
         [] statusCode = 504 -> NewTimeoutError("")
         [] OTHER -> NewServiceError(statusCode, "")

\* A handleErrorResponse without the case of 413.
handleErrorResponse_No413(statusCode, decodes) ==
  IF ~decodes THEN NewServiceError(statusCode, "decode")
  ELSE CASE statusCode = 400 -> NewValidationError("")
         [] statusCode = 499 -> NewTimeoutError("")
         [] statusCode = 502 -> NewServiceError(statusCode, "")
         [] statusCode = 504 -> NewTimeoutError("")
         [] OTHER -> NewServiceError(statusCode, "")

\* handleErrorResponse for a response with status statusCode whose body
\* decodes as JSON (decodes) or not.
handleErrorResponse(statusCode, decodes) ==
  IF ~decodes THEN NewServiceError(statusCode, "decode")
  ELSE CASE statusCode = 400 -> NewValidationError("")
         [] statusCode = 413 -> NewValidationError("")
         [] statusCode = 499 -> NewTimeoutError("")
         [] statusCode = 502 -> NewServiceError(statusCode, "")
         [] statusCode = 504 -> NewTimeoutError("")
         [] OTHER -> NewServiceError(statusCode, "")

VARIABLES
  files,       \* the []FileInput given to ScanMultiple: records [Data, Filename]
  chunkSize,   \* Client.chunkSize
  ctxErr,      \* ctx.Err() of the session context: "nil", "Canceled", "DeadlineExceeded"
  smPc,        \* the ScanMultiple call: "idle", "open", "failed"
  smErr,       \* the error ScanMultiple returned ("nil" or an SDK error record)
  sPc,         \* sender goroutine: "idle","loop","send","err","closeSend","done","panicked"
  sIdx,        \* index of the file the sender is at (range variable of the for loop)
  rPc,         \* receiver goroutine: "idle","recv","fwd","errfwd","cancel","close","done"
  rMsg,        \* the response the receiver is forwarding
  results,     \* buffered contents of the results channel
  closed,      \* the results channel has been closed
  delivered,   \* results the caller has received from the channel
  sent,        \* requests passed to stream.Send, in order, with the outcome of each
  closeSends,  \* number of calls of stream.CloseSend
  streamEnd,   \* how the stream ended: "open", "EOF", "Canceled", "Other"
  srvHalf,     \* the server has seen the client close its send side
  srvSent,     \* number of verdicts the server has put on the stream
  spur,        \* the server has sent a verdict that answers no file
  down,        \* verdicts in flight from the server to the client
  op,          \* the single-call operation in progress or last returned ("none")
  opIn,        \* its input: [dataLen, filename, ok, opens]
  opPc,        \* "idle", "rpc", "send", "read", "tail", "session", "returned"
  opErr,       \* the error the operation returned (NilErr when none)
  opCtx,       \* [atCall: ctx.Err() when the call was made,
               \*  hit: the transport call failed because the context was done,
               \*  net: the call reached http.Client.Do or invoked an RPC]
  rd,          \* ScanStreamReader: [pos: bytes read so far, first: the local first]
  conn         \* Client.conn of the gRPC client: "nil", "open", "closed"

vars == <<files, chunkSize, ctxErr, smPc, smErr, sPc, sIdx, rPc, rMsg,
          results, closed, delivered, sent, closeSends, streamEnd,
          srvHalf, srvSent, spur, down, op, opIn, opPc, opErr, opCtx, rd, conn>>

\* The state of single-call operations, which a ScanMultiple session leaves
\* alone, and the state of a session, which single-call operations leave alone.
opVars == <<op, opIn, opPc, opErr, opCtx, rd, conn>>

sessionVars == <<files, smPc, smErr, sPc, sIdx, rPc, rMsg, results, closed,
                 delivered, closeSends, srvHalf, srvSent, spur, down>>

N == Len(files)

\* A result channel with one slot per input file.
bufSize_PerFile == IF N < 1 THEN 1 ELSE N

\* bufSize := 2*len(files) + 1; if bufSize < 1 { bufSize = 1 }
bufSize == IF 2 * N + 1 < 1 THEN 1 ELSE 2 * N + 1

CtxDone == ctxErr # "nil"

\* The process has crashed (a goroutine panicked): nothing runs any more.
Alive == sPc # "panicked"

\* A goroutine of the session is still running: the stream and the context
\* are observed by nobody once both have returned.
Running == smPc = "open" /\ Alive /\ (sPc # "done" \/ rPc # "done")

\* ------------------------------------------------------------- sendChunks
\* A sendChunks that flags a chunk as last only when it is a full chunk.
ChunkReq_FullLast(data, filename, i, cs) ==
  IF Len(data) = 0
  THEN [Chunk |-> <<>>, Filename |-> filename, IsLast |-> TRUE]
  ELSE LET end == Min(i + cs, Len(data))
       IN [Chunk |-> SubSeq(data, i + 1, end),
           IsLast |-> (i + cs = Len(data)),
           Filename |-> IF i = 0 THEN filename ELSE NoName]

\* The request sendChunks builds at offset i of data.
ChunkReq(data, filename, i, cs) ==
  IF Len(data) = 0
  THEN [Chunk |-> <<>>, Filename |-> filename, IsLast |-> TRUE]
  ELSE LET end == Min(i + cs, Len(data))
       IN [Chunk |-> SubSeq(data, i + 1, end),
           IsLast |-> (end = Len(data)),
           Filename |-> IF i = 0 THEN filename ELSE NoName]

\* The requests sendChunks passes to stream.Send from offset i on, in order,
\* when no Send fails: one for empty data, else the loop
\* "for i := 0; i < len(data); i += c.chunkSize".
RECURSIVE ChunksFrom(_, _, _, _)
ChunksFrom(data, filename, i, cs) ==
  IF Len(data) = 0
  THEN <<ChunkReq(data, filename, 0, cs)>>
  ELSE IF i < Len(data)
       THEN <<ChunkReq(data, filename, i, cs)>> \o ChunksFrom(data, filename, i + cs, cs)
       ELSE <<>>

\* A sendChunks without the special case of empty data: its loop sends nothing.
sendChunks_LoopOnly(data, filename, cs) ==
  IF Len(data) = 0 THEN <<>> ELSE ChunksFrom(data, filename, 0, cs)

sendChunks(data, filename, cs) == ChunksFrom(data, filename, 0, cs)

\* The log entries of the requests reqs of file f, all sent successfully
\* except the last one when failed.
SendLog(reqs, f, failed) ==
  [k \in 1..Len(reqs) |-> [req |-> reqs[k], file |-> f,
                           ok |-> ~(failed /\ k = Len(reqs))]]

\* -------------------------------------------------------- mapScanResponse
mapScanResponse(resp) == [Status |-> resp.Status, Filename |-> resp.Filename]

\* ------------------------------------------------------------ mock server
\* The responses of the server to the requests reqs received in order, cur
\* being its currentFilename before them: currentFilename becomes the first
\* non-empty Filename, and a request with IsLast is answered with a verdict
\* for currentFilename, which is then reset.
RECURSIVE ServerResponses(_, _)
ServerResponses(reqs, cur) ==
  IF reqs = <<>> THEN <<>>
  ELSE LET req == Head(reqs)
           name == IF cur = NoName /\ req.Filename # NoName THEN req.Filename ELSE cur
       IN IF req.IsLast
          THEN <<[Status |-> "OK", Filename |-> name]>> \o ServerResponses(Tail(reqs), NoName)
          ELSE ServerResponses(Tail(reqs), name)

\* ------------------------------------------------------------------ Init
\* The input lists of the session: the first n files of a list whose payload
\* lengths run MaxData, MaxData-1, .., 0, MaxData, .. (files of several chunks,
\* of one chunk and empty files), named 1, 2, ..
FileLen(k) == MaxData - ((k - 1) % (MaxData + 1))

FileList(n) == [k \in 1..n |-> [Data |-> Payload(FileLen(k)), Filename |-> k]]

\* The session starts with a client whose chunk size is one of sizes.
InitSession(sizes) ==
  /\ files \in { FileList(n) : n \in 0..MaxFiles }
  /\ chunkSize \in sizes
  /\ ctxErr = "nil"
  /\ smPc = "idle"
  /\ smErr = NilErr
  /\ sPc = "idle" /\ sIdx = 1
  /\ rPc = "idle" /\ rMsg = NoResp
  /\ results = <<>> /\ closed = FALSE /\ delivered = <<>>
  /\ sent = <<>> /\ closeSends = 0
  /\ streamEnd = "open"
  /\ srvHalf = FALSE /\ srvSent = 0 /\ spur = FALSE
  /\ down = <<>>
  /\ op = "none"
  /\ opIn = [dataLen |-> 0, filename |-> NoName, ok |-> TRUE, opens |-> TRUE]
  /\ opPc = "idle"
  /\ opErr = NilErr
  /\ opCtx = [atCall |-> "nil", hit |-> FALSE, net |-> FALSE]
  /\ rd = [pos |-> 0, first |-> TRUE]
  /\ conn = "open"

\* The sessions that any server, stream and caller drive use the largest
\* chunk size, which cuts the first file in a full and a short chunk.
Init == InitSession({MaxChunk})

\* The sessions of the happy path use every chunk size.
InitHappy == InitSession(1..MaxChunk)

\* ------------------------------------------------------ ScanMultiple call
callVars == <<smPc, smErr>>
senderVars == <<sPc, sIdx>>
receiverVars == <<rPc, rMsg>>
chanVars == <<results, closed>>
serverVars == <<srvHalf, srvSent, spur>>
inputVars == <<files, chunkSize>>

\* stream, err := c.scanner.ScanMultiple(ctx) succeeds; both goroutines start.
OpenStream ==
  /\ smPc = "idle" /\ ~CtxDone
  /\ smPc' = "open"
  /\ sPc' = "loop"
  /\ rPc' = "recv"
  /\ UNCHANGED <<opVars, inputVars, ctxErr, smErr, sIdx, rMsg, chanVars, delivered,
                 sent, closeSends, streamEnd, serverVars, down>>

\* c.scanner.ScanMultiple(ctx) fails, with the status of the context when it
\* is done: ScanMultiple calls cancel() and returns the mapped error.
OpenStreamFails ==
  /\ smPc = "idle"
  /\ \E code \in (IF CtxDone THEN {ctxErr} ELSE {"Unavailable", "Unimplemented"}) :
       smErr' = mapGRPCError(StatusErr(code))
  /\ ctxErr' = IF ctxErr = "nil" THEN "Canceled" ELSE ctxErr
  /\ smPc' = "failed"
  /\ UNCHANGED <<opVars, inputVars, senderVars, receiverVars, chanVars, delivered,
                 sent, closeSends, streamEnd, serverVars, down>>

\* ------------------------------------------------------- sender goroutine
\* A sender loop without the select on ctx.Done().
SenderNextFile_NoCheck ==
  /\ Alive /\ sPc = "loop"
  /\ sPc' = IF sIdx > N THEN "closeSend" ELSE "send"
  /\ UNCHANGED <<opVars, inputVars, ctxErr, callVars, sIdx, receiverVars, chanVars, delivered,
                 sent, closeSends, streamEnd, serverVars, down>>

\* Top of "for _, file := range files": the loop ends after the last file, or
\* the non-blocking select finds ctx.Done() closed.
SenderNextFile ==
  /\ Alive /\ sPc = "loop"
  /\ sPc' = IF sIdx > N \/ CtxDone THEN "closeSend" ELSE "send"
  /\ UNCHANGED <<opVars, inputVars, ctxErr, callVars, sIdx, receiverVars, chanVars, delivered,
                 sent, closeSends, streamEnd, serverVars, down>>

\* sendChunks(stream, file.Data, file.Filename) returns nil: every Send
\* succeeded. The server answers the requests as it receives them (answer)
\* or stays silent.
SendFile(answer) ==
  /\ Alive /\ sPc = "send"
  /\ streamEnd = "open"
  /\ LET file == files[sIdx]
         reqs == sendChunks(file.Data, file.Filename, chunkSize)
     IN /\ sent' = sent \o SendLog(reqs, sIdx, FALSE)
        /\ IF answer
           THEN /\ down' = down \o ServerResponses(reqs, NoName)
                /\ srvSent' = srvSent + Len(ServerResponses(reqs, NoName))
           ELSE down' = down /\ srvSent' = srvSent
  /\ sPc' = "loop" /\ sIdx' = sIdx + 1
  /\ UNCHANGED <<opVars, inputVars, ctxErr, callVars, receiverVars, chanVars, delivered,
                 closeSends, streamEnd, srvHalf, spur>>

SendFileOk == SendFile(TRUE)

SendFileUnanswered == SendFile(FALSE)

\* A stream on which a Send that failed is followed by Sends that succeed.
SendFileFail_StreamSurvives ==
  /\ Alive /\ sPc = "send"
  /\ streamEnd = "open"
  /\ LET file == files[sIdx]
         reqs == sendChunks(file.Data, file.Filename, chunkSize)
     IN \E k \in 1..Len(reqs) : sent' = sent \o SendLog(SubSeq(reqs, 1, k), sIdx, TRUE)
  /\ sPc' = "err"
  /\ UNCHANGED <<opVars, inputVars, ctxErr, callVars, sIdx, receiverVars, chanVars,
                 delivered, closeSends, streamEnd, serverVars, down>>

\* sendChunks returns an error: the k-th Send of the file fails, after k-1
\* that succeeded. A Send fails when the stream has ended (before the file or
\* while it is sent, with status end) or the client side rejects the message,
\* which ends the stream; it may fail when the context is done.
SendFileFail ==
  /\ Alive /\ sPc = "send"
  /\ LET file == files[sIdx]
         reqs == sendChunks(file.Data, file.Filename, chunkSize)
     IN \E k \in 1..Len(reqs) :
          /\ (k > 1) => streamEnd = "open"
          /\ sent' = sent \o SendLog(SubSeq(reqs, 1, k), sIdx, TRUE)
  /\ \/ streamEnd = "open" /\ streamEnd' \in {"EOF", "Canceled", "Other"}
     \/ streamEnd = "open" /\ CtxDone /\ streamEnd' = streamEnd
     \/ streamEnd # "open" /\ streamEnd' = streamEnd
  /\ sPc' = "err"
  /\ UNCHANGED <<opVars, inputVars, ctxErr, callVars, sIdx, receiverVars, chanVars,
                 delivered, closeSends, serverVars, down>>

\* The ERROR result the sender builds for the file whose chunks failed.
SenderErrResult == [Status |-> "ERROR", Filename |-> files[sIdx].Filename]

\* A sender that gives up the batch after reporting a failed file.
SenderEnqueue_Stops ==
  /\ Alive /\ sPc = "err"
  /\ ~closed /\ Len(results) < bufSize
  /\ results' = Append(results, SenderErrResult)
  /\ sPc' = "closeSend"
  /\ UNCHANGED <<opVars, inputVars, ctxErr, callVars, sIdx, receiverVars, closed, delivered,
                 sent, closeSends, streamEnd, serverVars, down>>

\* sendResult in the sender, case "results <- r" on the open channel.
SenderEnqueue ==
  /\ Alive /\ sPc = "err"
  /\ ~closed /\ Len(results) < bufSize
  /\ results' = Append(results, SenderErrResult)
  /\ sPc' = "loop" /\ sIdx' = sIdx + 1
  /\ UNCHANGED <<opVars, inputVars, ctxErr, callVars, receiverVars, closed, delivered,
                 sent, closeSends, streamEnd, serverVars, down>>

\* A sender that returns from an abandoned sendResult without the deferred
\* CloseSend.
SenderAbandon_NoClose ==
  /\ Alive /\ sPc = "err"
  /\ CtxDone
  /\ sPc' = "done"
  /\ UNCHANGED <<opVars, inputVars, ctxErr, callVars, sIdx, receiverVars, chanVars,
                 delivered, sent, closeSends, streamEnd, serverVars, down>>

\* sendResult in the sender, case "<-ctx.Done()": the sender returns.
SenderAbandon ==
  /\ Alive /\ sPc = "err"
  /\ CtxDone
  /\ sPc' = "closeSend"
  /\ UNCHANGED <<opVars, inputVars, ctxErr, callVars, sIdx, receiverVars, chanVars,
                 delivered, sent, closeSends, streamEnd, serverVars, down>>

\* sendResult in the sender, case "results <- r" on the closed channel: a send
\* on a closed channel panics; the deferred CloseSend runs while unwinding.
SenderPanic ==
  /\ Alive /\ sPc = "err"
  /\ closed
  /\ sPc' = "panicked"
  /\ closeSends' = closeSends + 1
  /\ UNCHANGED <<opVars, inputVars, ctxErr, callVars, sIdx, receiverVars, chanVars,
                 delivered, sent, streamEnd, serverVars, down>>

\* The deferred stream.CloseSend().
SenderCloseSend ==
  /\ Alive /\ sPc = "closeSend"
  /\ closeSends' = closeSends + 1
  /\ srvHalf' = (srvHalf \/ streamEnd = "open")
  /\ sPc' = "done"
  /\ UNCHANGED <<opVars, inputVars, ctxErr, callVars, sIdx, receiverVars, chanVars,
                 delivered, sent, streamEnd, srvSent, spur, down>>

\* ----------------------------------------------------- receiver goroutine
\* stream.Recv returns a response.
RecvResponse ==
  /\ Alive /\ rPc = "recv"
  /\ down # <<>>
  /\ rMsg' = Head(down)
  /\ down' = Tail(down)
  /\ rPc' = "fwd"
  /\ UNCHANGED <<opVars, inputVars, ctxErr, callVars, senderVars, chanVars, delivered, sent,
                 closeSends, streamEnd, serverVars>>

\* stream.Recv returns io.EOF: the receiver returns.
RecvEOF ==
  /\ Alive /\ rPc = "recv"
  /\ down = <<>> /\ streamEnd = "EOF"
  /\ rPc' = "cancel"
  /\ UNCHANGED <<opVars, inputVars, ctxErr, callVars, senderVars, rMsg, chanVars, delivered,
                 sent, closeSends, streamEnd, serverVars, down>>

\* The status code of the error stream.Recv returns, when it returns one: the
\* stream's own failure, or the status of the context that is done.
RecvErrCodes ==
  (IF streamEnd \in {"Canceled", "Other"} THEN {streamEnd} ELSE {})
  \cup (IF CtxDone THEN {ctxErr} ELSE {})

\* A receiver that reports a failed Recv with the Canceled status as well.
RecvCanceled_Reports ==
  /\ Alive /\ rPc = "recv"
  /\ "Canceled" \in RecvErrCodes
  /\ rPc' = "errfwd"
  /\ UNCHANGED <<opVars, inputVars, ctxErr, callVars, senderVars, rMsg, chanVars, delivered,
                 sent, closeSends, streamEnd, serverVars, down>>

\* stream.Recv returns an error with the Canceled status: the receiver returns.
RecvCanceled ==
  /\ Alive /\ rPc = "recv"
  /\ "Canceled" \in RecvErrCodes
  /\ rPc' = "cancel"
  /\ UNCHANGED <<opVars, inputVars, ctxErr, callVars, senderVars, rMsg, chanVars, delivered,
                 sent, closeSends, streamEnd, serverVars, down>>

\* stream.Recv returns any other error: the receiver goes to report it.
RecvError ==
  /\ Alive /\ rPc = "recv"
  /\ RecvErrCodes \ {"Canceled"} # {}
  /\ rPc' = "errfwd"
  /\ UNCHANGED <<opVars, inputVars, ctxErr, callVars, senderVars, rMsg, chanVars, delivered,
                 sent, closeSends, streamEnd, serverVars, down>>

\* A receiver that returns after forwarding its first verdict.
ReceiverEnqueue_Returns ==
  /\ Alive /\ rPc = "fwd"
  /\ Len(results) < bufSize
  /\ results' = Append(results, mapScanResponse(rMsg))
  /\ rPc' = "cancel"
  /\ rMsg' = NoResp
  /\ UNCHANGED <<opVars, inputVars, ctxErr, callVars, senderVars, closed, delivered, sent,
                 closeSends, streamEnd, serverVars, down>>

\* sendResult(mapScanResponse(resp)), case "results <- r".
ReceiverEnqueue ==
  /\ Alive /\ rPc = "fwd"
  /\ Len(results) < bufSize
  /\ results' = Append(results, mapScanResponse(rMsg))
  /\ rPc' = "recv"
  /\ rMsg' = NoResp
  /\ UNCHANGED <<opVars, inputVars, ctxErr, callVars, senderVars, closed, delivered, sent,
                 closeSends, streamEnd, serverVars, down>>

\* sendResult(mapScanResponse(resp)), case "<-ctx.Done()": the receiver returns.
ReceiverAbandon ==
  /\ Alive /\ rPc = "fwd"
  /\ CtxDone
  /\ rPc' = "cancel"
  /\ rMsg' = NoResp
  /\ UNCHANGED <<opVars, inputVars, ctxErr, callVars, senderVars, chanVars, delivered, sent,
                 closeSends, streamEnd, serverVars, down>>

\* A receiver that keeps calling Recv after it reported a failed Recv.
ReceiverErrEnqueue_Loops ==
  /\ Alive /\ rPc = "errfwd"
  /\ Len(results) < bufSize
  /\ results' = Append(results, [Status |-> "ERROR", Filename |-> NoName])
  /\ rPc' = "recv"
  /\ UNCHANGED <<opVars, inputVars, ctxErr, callVars, senderVars, rMsg, closed, delivered,
                 sent, closeSends, streamEnd, serverVars, down>>

\* sendResult(ERROR) after a failed Recv, case "results <- r"; then return.
ReceiverErrEnqueue ==
  /\ Alive /\ rPc = "errfwd"
  /\ Len(results) < bufSize
  /\ results' = Append(results, [Status |-> "ERROR", Filename |-> NoName])
  /\ rPc' = "cancel"
  /\ UNCHANGED <<opVars, inputVars, ctxErr, callVars, senderVars, rMsg, closed, delivered,
                 sent, closeSends, streamEnd, serverVars, down>>

\* A sendResult that only waits for room on the channel, without the
\* "<-ctx.Done()" case.
ReceiverErrAbandon_Blocking ==
  /\ Alive /\ rPc = "errfwd"
  /\ CtxDone /\ Len(results) < bufSize
  /\ rPc' = "cancel"
  /\ UNCHANGED <<opVars, inputVars, ctxErr, callVars, senderVars, rMsg, chanVars, delivered,
                 sent, closeSends, streamEnd, serverVars, down>>

\* sendResult(ERROR) after a failed Recv, case "<-ctx.Done()"; then return.
ReceiverErrAbandon ==
  /\ Alive /\ rPc = "errfwd"
  /\ CtxDone
  /\ rPc' = "cancel"
  /\ UNCHANGED <<opVars, inputVars, ctxErr, callVars, senderVars, rMsg, chanVars, delivered,
                 sent, closeSends, streamEnd, serverVars, down>>

\* The deferred cancel() of the receiver (deferred last, so it runs first).
ReceiverCancel ==
  /\ Alive /\ rPc = "cancel"
  /\ ctxErr' = IF ctxErr = "nil" THEN "Canceled" ELSE ctxErr
  /\ rPc' = "close"
  /\ UNCHANGED <<opVars, inputVars, callVars, senderVars, rMsg, chanVars, delivered, sent,
                 closeSends, streamEnd, serverVars, down>>

\* The deferred close(results) of the receiver.
ReceiverClose ==
  /\ Alive /\ rPc = "close"
  /\ closed' = TRUE
  /\ rPc' = "done"
  /\ UNCHANGED <<opVars, inputVars, ctxErr, callVars, senderVars, rMsg, results, delivered,
                 sent, closeSends, streamEnd, serverVars, down>>

\* ------------------------------------------------------------------ caller
\* The caller receives one result from the channel.
CallerReceive ==
  /\ Alive /\ results # <<>>
  /\ delivered' = Append(delivered, Head(results))
  /\ results' = Tail(results)
  /\ UNCHANGED <<opVars, inputVars, ctxErr, callVars, senderVars, receiverVars, closed, sent,
                 closeSends, streamEnd, serverVars, down>>

\* The caller cancels its context, or the deadline (the caller's, or the
\* default timeout contextWithTimeout adds) passes.
ContextDone ==
  /\ Running \/ smPc = "idle"
  /\ ctxErr = "nil"
  /\ ctxErr' \in {"Canceled", "DeadlineExceeded"}
  /\ UNCHANGED <<opVars, inputVars, callVars, senderVars, receiverVars, chanVars, delivered,
                 sent, closeSends, streamEnd, serverVars, down>>

\* ------------------------------------------------------------------ server
\* A misbehaving server sends a verdict that answers no file. It does so once:
\* one such verdict is what it takes to put more than 2N+1 results on the way
\* to the channel.
ServerSpurious ==
  /\ Running /\ streamEnd = "open"
  /\ ~spur
  /\ down' = Append(down, [Status |-> "OK", Filename |-> NoName])
  /\ spur' = TRUE
  /\ srvSent' = srvSent + 1
  /\ UNCHANGED <<opVars, inputVars, ctxErr, callVars, senderVars, receiverVars, chanVars,
                 delivered, sent, closeSends, streamEnd, srvHalf>>

\* The server's handler returns nil after the client closed its send side:
\* the stream ends with io.EOF.
ServerEnd ==
  /\ Running /\ streamEnd = "open"
  /\ srvHalf
  /\ streamEnd' = "EOF"
  /\ UNCHANGED <<opVars, inputVars, ctxErr, callVars, senderVars, receiverVars, chanVars,
                 delivered, sent, closeSends, serverVars, down>>

\* The server ends the stream early, or the stream fails with a status.
StreamBreak ==
  /\ Running /\ streamEnd = "open"
  /\ streamEnd' \in {"EOF", "Canceled", "Other"}
  /\ UNCHANGED <<opVars, inputVars, ctxErr, callVars, senderVars, receiverVars, chanVars,
                 delivered, sent, closeSends, serverVars, down>>

\* ------------------------------------------------------------------- Spec
SenderStep ==
  \/ SenderNextFile \/ SendFileOk \/ SendFileUnanswered \/ SendFileFail
  \/ SenderEnqueue \/ SenderAbandon \/ SenderPanic \/ SenderCloseSend

ReceiverStep ==
  \/ RecvResponse \/ RecvEOF \/ RecvCanceled \/ RecvError
  \/ ReceiverEnqueue \/ ReceiverAbandon \/ ReceiverErrEnqueue \/ ReceiverErrAbandon
  \/ ReceiverCancel \/ ReceiverClose

Next ==
  \/ OpenStream \/ OpenStreamFails
  \/ SenderStep
  \/ ReceiverStep
  \/ CallerReceive
  \/ ContextDone
  \/ ServerSpurious \/ ServerEnd \/ StreamBreak

Spec == Init /\ [][Next]_vars

\* The Go scheduler runs a goroutine that can take a step; the session context
\* has a deadline (contextWithTimeout), so it becomes done while the session
\* runs. The caller and the server are under no obligation.
FairSpec ==
  /\ Spec
  /\ WF_vars(SenderStep)
  /\ WF_vars(ReceiverStep)
  /\ WF_vars(ContextDone)

\* The happy path: no Send fails, the context is never cancelled from outside,
\* the server answers every file once when it receives the final chunk and
\* ends the stream after the client closed its send side, the caller drains
\* the channel.
HappySender == SenderNextFile \/ SendFileOk \/ SenderCloseSend

HappyReceiver ==
  \/ RecvResponse \/ RecvEOF \/ ReceiverEnqueue \/ ReceiverCancel \/ ReceiverClose

HappyNext ==
  \/ OpenStream
  \/ HappySender
  \/ HappyReceiver
  \/ CallerReceive
  \/ ServerEnd

HappySpec ==
  /\ InitHappy /\ [][HappyNext]_vars
  /\ WF_vars(OpenStream) /\ WF_vars(HappySender) /\ WF_vars(HappyReceiver)
  /\ WF_vars(CallerReceive) /\ WF_vars(ServerEnd)

\* ---------------------------------------------------- ScanMultiple: claims
\* The results put on the channel so far.
Enqueued == delivered \o results

\* C1, as stated: whatever the server, the stream and the caller do, the
\* caller gets at most N results from the channel of ScanMultiple called with
\* N files.
C1_AtMostN == Len(delivered) <= N

\* The results put on the channel are at most one ERROR result of the sender
\* per input file, one result per verdict the server sent, and one ERROR
\* result of the receiver; that is at most 2N+1, the capacity of the channel,
\* when the server sends at most one verdict per file. The channel is closed
\* only by the receiver when it returns.
ResultBound ==
  /\ Len(Enqueued) <= N + srvSent + 1
  /\ Cardinality({k \in 1..Len(Enqueued) :
                    Enqueued[k].Status = "ERROR" /\ Enqueued[k].Filename = NoName}) <= 1
  /\ ~spur => Len(Enqueued) <= 2 * N + 1
  /\ closed => rPc = "done"

\* Once the channel is closed it stays closed and nothing more is put on it.
ClosedFinal == closed => (closed' /\ Enqueued' = Enqueued)

\* C1, amended: the channel of ScanMultiple called with N files delivers at
\* most N + V + 1 results, V being the number of verdicts the server sent (at
\* most 2N+1 when the server sends at most one verdict per file), and is then
\* closed for good.
C1_ResultBound == []ResultBound /\ [][ClosedFinal]_vars

\* More than N results were delivered for N > 0 files and the channel closed.
C1_Witness == closed /\ N > 0 /\ Len(delivered) > N

\* The channel is closed and drained, and the caller got exactly one result
\* per input file and nothing else.
AllDelivered ==
  /\ closed /\ results = <<>>
  /\ Len(delivered) = N
  /\ \A k \in 1..N :
       Cardinality({j \in 1..Len(delivered) :
                      delivered[j].Filename = files[k].Filename}) = 1

\* C2: on the happy path the channel eventually has delivered exactly N
\* results, one per input file, and is closed, for good; with no files it is
\* closed with no result.
C2_HappyPath == <>[]AllDelivered

\* Two files or more were scanned and every result delivered.
C2_Witness == AllDelivered /\ N >= 2 /\ sPc = "done" /\ rPc = "done"

\* Both goroutines have ended and the channel is closed.
Terminated ==
  /\ sPc \in {"done", "panicked"}
  /\ rPc = "done"
  /\ closed

\* C3: once the session runs, both goroutines eventually terminate (the sender
\* by returning or by panicking) and the channel is eventually closed, even if
\* the caller stops receiving, given that the context eventually becomes done.
C3_GoroutinesTerminate == (smPc = "open") ~> Terminated

\* The receiver holds a result, the channel is full, the caller received
\* nothing and the context is not done.
C3_Witness ==
  /\ rPc \in {"fwd", "errfwd"} /\ Len(results) = bufSize
  /\ delivered = <<>> /\ ~CtxDone

\* C4, as stated: when sending file i fails, the sender puts one ERROR result
\* with the filename of file i on the channel and goes on to file i+1.
C4_ErrorThenNext ==
  [][(sPc = "err" /\ sPc' # "err")
       => /\ results' = Append(results, SenderErrResult)
          /\ sPc' = "loop" /\ sIdx' = sIdx + 1]_vars

\* C4, amended: it does so when the session context is not done when its
\* sendResult completes.
C4_ErrorThenNextUnlessDone ==
  [][(sPc = "err" /\ sPc' # "err" /\ ~CtxDone)
       => /\ results' = Append(results, SenderErrResult)
          /\ sPc' = "loop" /\ sIdx' = sIdx + 1]_vars

\* File 1 failed and its ERROR result is on the channel, the context is not
\* done and the sender is sending file 2.
C4_Witness ==
  /\ N >= 2 /\ ~CtxDone
  /\ sIdx = 2 /\ sPc = "send"
  /\ \E k \in 1..Len(Enqueued) :
       Enqueued[k] = [Status |-> "ERROR", Filename |-> files[1].Filename]

\* The ERROR result the receiver builds for a failed Recv.
ReceiverErrResult == [Status |-> "ERROR", Filename |-> NoName]

\* The receiver has left its loop.
ReceiverEnded == rPc \in {"cancel", "close", "done"}

\* C25, as stated: after a failed Recv that is neither end-of-stream nor
\* Canceled the receiver puts exactly one ERROR result on the channel.
C25_ErrorAlwaysReported ==
  [][(rPc = "errfwd" /\ rPc' # "errfwd") => results' = Append(results, ReceiverErrResult)]_vars

\* C25, amended: the receiver puts nothing on the channel when Recv fails with
\* end-of-stream or the Canceled status; for every other failure it puts one
\* ERROR result when the session context is not done, and one or none when it
\* is done; then it ends, and puts nothing on the channel afterwards.
C25_ErrorReportedUnlessDone ==
  /\ [][(rPc = "recv" /\ rPc' = "cancel")
          => /\ streamEnd = "EOF" \/ "Canceled" \in RecvErrCodes
             /\ results' = results]_vars
  /\ [][(rPc = "recv" /\ rPc' = "errfwd")
          => /\ RecvErrCodes \ {"Canceled"} # {}
             /\ results' = results]_vars
  /\ [][(rPc = "errfwd" /\ rPc' # "errfwd")
          => /\ rPc' = "cancel"
             /\ \/ results' = Append(results, ReceiverErrResult)
                \/ CtxDone /\ results' = results]_vars
  /\ [][(ReceiverEnded /\ Enqueued' # Enqueued)
          => /\ sPc = "err" /\ ReceiverEnded'
             /\ Enqueued' = Append(Enqueued, SenderErrResult)]_vars

\* The stream failed with another status, the context is not done, and the
\* receiver has put its ERROR result on the channel and left its loop.
C25_Witness ==
  /\ streamEnd = "Other" /\ rPc = "cancel" /\ ~CtxDone
  /\ Len(Enqueued) > 0 /\ Enqueued[Len(Enqueued)] = ReceiverErrResult

\* The number of goroutines that hold a result to put on the channel.
Pending ==
  (IF sPc = "err" THEN 1 ELSE 0) + (IF rPc \in {"fwd", "errfwd"} THEN 1 ELSE 0)

\* C26: when the server sends at most one verdict per input file, the results
\* put on the channel and those the goroutines hold to put on it never exceed
\* the capacity 2N+1, received or not: every enqueue finds room.
C26_EnqueueFindsRoom ==
  ~spur => Len(Enqueued) + Pending <= bufSize

\* Two files or more, the caller received nothing, the session failed once,
\* and a verdict, an ERROR result of the sender and the ERROR result of the
\* receiver are on the closed channel.
C26_Witness ==
  /\ ~spur /\ N >= 2 /\ delivered = <<>> /\ closed /\ streamEnd = "Other"
  /\ \E i, j, k \in 1..Len(results) :
       /\ results[i] = ReceiverErrResult
       /\ results[j].Status = "ERROR" /\ results[j].Filename # NoName
       /\ results[k].Status = "OK"

\* C27: once the stream is open the sender ends, and when it has ended it
\* has called CloseSend exactly once, whichever way it left its loop; it calls
\* CloseSend at no other time and sends no chunk afterwards.
C27_CloseSendOnce ==
  /\ [](closeSends = IF sPc \in {"done", "panicked"} THEN 1 ELSE 0)
  /\ [][closeSends = 1 => (sent' = sent /\ closeSends' = 1)]_vars
  /\ (smPc = "open") ~> (closeSends = 1)

\* The sender ended before the last file, after a chunk was sent, and the
\* send side is closed.
C27_Witness ==
  /\ sPc = "done" /\ closeSends = 1
  /\ sIdx <= N /\ sent # <<>>

\* C28, as stated: once the receiver has cancelled the session context the
\* sender sends no chunk of a further file.
C28_NoSendAfterCancel ==
  [][(rPc \in {"close", "done"}) => sent' = sent]_vars

\* C28, amended: the receiver cancels the session context whenever it leaves
\* its loop, the context stays done, and the sender starts no file at a check
\* (the top of its loop) made while the context is done; the file whose check
\* came before the cancellation is still sent.
C28_NoFileAfterObservedCancel ==
  /\ [](rPc \in {"close", "done"} => CtxDone)
  /\ [][CtxDone => ctxErr' = ctxErr]_vars
  /\ [][(sPc = "loop" /\ CtxDone) => sPc' \in {"loop", "closeSend"}]_vars
  /\ [][(sPc # "send" /\ sPc' = "send") => (sPc = "loop" /\ ~CtxDone)]_vars

\* The receiver ended at end-of-stream and cancelled the context, and the
\* sender left its loop before the last file.
C28_Witness ==
  /\ rPc = "done" /\ streamEnd = "EOF" /\ ctxErr = "Canceled"
  /\ sPc = "closeSend" /\ sIdx <= N

\* C29: the sender never executes its send of an ERROR result against the
\* closed channel, in any interleaving: no goroutine panics.
C29_NoSendOnClosedChannel == ~(closed /\ sPc = "panicked")

\* The chunks that went out on the stream: the requests whose Send succeeded.
SentChunks == SelectSeq(sent, LAMBDA e : e.ok)

\* C30: the chunks sent over the session are those of the files in input
\* order, each file's chunks together and in the order of sendChunks, and a
\* chunk that carries a filename is the first of the session or follows a
\* chunk with IsLast, also after a Send failed part-way through a file.
C30_FilesNotInterleaved ==
  /\ \A j, k \in 1..Len(sent) : j < k => sent[j].file <= sent[k].file
  /\ \A f \in 1..N :
       LET mine == SelectSeq(sent, LAMBDA e : e.file = f)
           reqs == sendChunks(files[f].Data, files[f].Filename, chunkSize)
       IN /\ Len(mine) <= Len(reqs)
          /\ \A k \in 1..Len(mine) : mine[k].req = reqs[k]
  /\ \A k \in 1..Len(SentChunks) :
       SentChunks[k].req.Filename # NoName => (k = 1 \/ SentChunks[k - 1].req.IsLast)

\* The second Send of file 1 failed after its first chunk went out, and the
\* sender went on to file 2.
C30_Witness ==
  /\ Len(sent) >= 3
  /\ sent[1].ok /\ ~sent[1].req.IsLast
  /\ sent[2].file = 1 /\ ~sent[2].ok
  /\ sent[3].file = 2

\* ---------------------------------------------------- ScanMultipleCallback
\* ScanMultipleCallback is the caller of ScanMultiple: one iteration of
\* "for result := range results { fn(result) }" receives a result and passes
\* it to fn; delivered is the list of the calls of fn.
CallbackInvoke ==
  /\ opPc = "idle"
  /\ CallerReceive

\* A range loop that ends as soon as the channel is closed, with results
\* still buffered.
CallbackReturns_Undrained ==
  /\ opPc = "idle" /\ smPc = "open"
  /\ closed
  /\ op' = "grpc.ScanMultipleCallback"
  /\ opErr' = NilErr
  /\ opPc' = "returned"
  /\ UNCHANGED <<sessionVars, opIn, opCtx, rd, conn, chunkSize, ctxErr, sent, streamEnd>>

\* The range loop ends, the channel being closed and drained: return nil.
CallbackReturns ==
  /\ opPc = "idle" /\ smPc = "open"
  /\ closed /\ results = <<>>
  /\ op' = "grpc.ScanMultipleCallback"
  /\ opErr' = NilErr
  /\ opPc' = "returned"
  /\ UNCHANGED <<sessionVars, opIn, opCtx, rd, conn, chunkSize, ctxErr, sent, streamEnd>>

\* ScanMultiple returned an error: ScanMultipleCallback returns it.
CallbackReturnsError ==
  /\ opPc = "idle" /\ smPc = "failed"
  /\ op' = "grpc.ScanMultipleCallback"
  /\ opErr' = smErr
  /\ opPc' = "returned"
  /\ UNCHANGED <<sessionVars, opIn, opCtx, rd, conn, chunkSize, ctxErr, sent, streamEnd>>

CallbackNext ==
  \/ OpenStream \/ OpenStreamFails
  \/ SenderStep
  \/ ReceiverStep
  \/ CallbackInvoke \/ CallbackReturns \/ CallbackReturnsError
  \/ ContextDone
  \/ ServerSpurious \/ ServerEnd \/ StreamBreak

CallbackSpec == Init /\ [][CallbackNext]_vars

\* ScanMultipleCallback has returned.
CallbackReturned == opPc = "returned" /\ op = "grpc.ScanMultipleCallback"

\* C21: when ScanMultipleCallback returns nil the channel is closed and
\* empty and fn was called once for each result put on the channel, in the
\* order of the channel; when the stream could not be opened it returns the
\* mapped error and fn was not called; fn is not called after the return.
C21_CallbackDrains ==
  /\ [](CallbackReturned =>
          IF smPc = "failed"
          THEN opErr = smErr /\ opErr.kind = "sdk" /\ delivered = <<>>
          ELSE opErr = NilErr /\ closed /\ results = <<>> /\ delivered = Enqueued)
  /\ [][CallbackReturned => delivered' = delivered]_vars

\* ScanMultipleCallback returned nil after two calls of fn or more.
C21_Witness ==
  CallbackReturned /\ opErr = NilErr /\ Len(delivered) >= 2

\* ================================================ single-call operations
RestScanOps ==
  {"rest.ScanFile", "rest.ScanFilePath", "rest.ScanReader", "rest.StreamScan",
   "rest.StreamScanFile"}

RestOps == RestScanOps \cup {"rest.HealthCheck", "rest.Version"}

GrpcUnaryOps == {"grpc.HealthCheck", "grpc.ScanFile", "grpc.ScanFilePath"}

GrpcReaderOps == {"grpc.ScanStreamReader", "grpc.ScanStreamFile"}

GrpcStreamOps == {"grpc.ScanStream"} \cup GrpcReaderOps

GrpcMultiOps == {"grpc.ScanMultiple", "grpc.ScanMultipleCallback"}

GrpcOps == GrpcUnaryOps \cup GrpcStreamOps \cup GrpcMultiOps

ScanOps == RestScanOps \cup (GrpcOps \ {"grpc.HealthCheck"})

\* Operations that make a transport call.
TransportOps == RestOps \cup GrpcOps

\* The inputs of a call: the payload length (of the data, the reader or the
\* file), the filename, ok: the file can be opened and read, the reader
\* does not fail, the declared size of StreamScan is positive, and opens:
\* os.Open and Stat of the file succeed (a directory opens and is not read).
Inputs ==
  { in \in [dataLen : 0..MaxData, filename : {NoName, 1}, ok : BOOLEAN, opens : BOOLEAN] :
      in.ok => in.opens }

\* The error an operation returns before it makes any transport call, NilErr
\* when it goes on to the transport.
LocalError(o, in) ==
  CASE o = "rest.ScanFilePath" /\ ~in.ok -> NewValidationError("open")
    [] o = "rest.ScanReader" /\ ~in.ok -> NewValidationError("copy")
    [] o = "rest.StreamScan" /\ ~in.ok -> NewValidationError("")
    [] o = "rest.StreamScanFile" /\ ~in.opens -> NewValidationError("open")
    [] o = "rest.StreamScanFile" /\ in.opens /\ in.dataLen <= 0 -> NewValidationError("")
    [] o = "grpc.ScanFile" /\ in.dataLen = 0 -> mapGRPCError(StatusErr("InvalidArgument"))
    [] o = "grpc.ScanFilePath" /\ ~in.ok -> NewValidationError("read")
    [] o = "grpc.ScanFilePath" /\ in.ok /\ in.dataLen = 0 ->
         mapGRPCError(StatusErr("InvalidArgument"))
    [] o = "grpc.ScanStreamFile" /\ ~in.opens -> NewValidationError("open")
    [] OTHER -> NilErr

\* The error http.Client.Do returns for a context that is done.
CtxChain(c) == IF c = "Canceled" THEN <<"url", "ctxCanceled">> ELSE <<"url", "ctxDeadline">>

\* The errors http.Client.Do returns (always a *url.Error).
DoErrors ==
  {<<"url", "timeout">>, <<"url", "op", "other">>, <<"url", "op", "timeout">>,
   <<"url", "op", "dns">>, <<"url", "dns">>, <<"url", "other">>}

HTTPStatuses == {200, 400, 401, 413, 499, 500, 502, 504}

\* The state of a call that has just been made with input in under a context
\* whose Err() is c. Calls do not depend on earlier calls: one is followed.
CallFrame(o, in, c) ==
  /\ opPc = "idle"
  /\ op' = o
  /\ opIn' = in
  /\ ctxErr' = c
  /\ sent' = <<>>
  /\ rd' = [pos |-> 0, first |-> TRUE]
  /\ UNCHANGED <<sessionVars, chunkSize, streamEnd>>

\* A call that returns a Validation error before any transport call.
CallRejected ==
  /\ opPc = "idle"
  /\ \E o \in TransportOps, in \in Inputs, c \in {"nil", "Canceled", "DeadlineExceeded"} :
       /\ LocalError(o, in) # NilErr
       /\ CallFrame(o, in, c)
       /\ opErr' = LocalError(o, in)
       /\ opCtx' = [atCall |-> c, hit |-> FALSE, net |-> FALSE]
       /\ opPc' = "returned"
       /\ conn' = conn

\* A call made with a context that is already done: http.Client.Do returns
\* the context's error, the RPC (or opening the stream) fails with the
\* context's status.
CallOnDoneContext ==
  /\ opPc = "idle"
  /\ \E o \in TransportOps, in \in Inputs, c \in {"Canceled", "DeadlineExceeded"} :
       /\ LocalError(o, in) = NilErr
       /\ o \in GrpcOps => conn = "open"
       /\ CallFrame(o, in, c)
       /\ opErr' = IF o \in RestOps THEN classifyTransportError(CtxChain(c))
                   ELSE mapGRPCError(StatusErr(c))
       /\ opCtx' = [atCall |-> c, hit |-> TRUE, net |-> TRUE]
       /\ opPc' = "returned"
       /\ conn' = conn

\* A call made with a live context: the request is sent, the RPC is started
\* or the stream is opened.
CallStarts ==
  /\ opPc = "idle"
  /\ \E o \in TransportOps, in \in Inputs :
       /\ LocalError(o, in) = NilErr
       /\ o \in GrpcOps => conn = "open"
       /\ CallFrame(o, in, "nil")
       /\ opErr' = NilErr
       /\ opCtx' = [atCall |-> "nil", hit |-> FALSE, net |-> TRUE]
       /\ opPc' = CASE o = "grpc.ScanStream" -> "send"
                    [] o \in GrpcReaderOps -> "read"
                    [] o \in GrpcMultiOps -> "session"
                    [] OTHER -> "rpc"
       /\ conn' = conn

\* Opening the stream of a streaming operation fails.
CallOpenFails ==
  /\ opPc = "idle"
  /\ \E o \in GrpcStreamOps \cup GrpcMultiOps, in \in Inputs, code \in GrpcCodes :
       /\ LocalError(o, in) = NilErr
       /\ conn = "open"
       /\ CallFrame(o, in, "nil")
       /\ opErr' = mapGRPCError(StatusErr(code))
       /\ opCtx' = [atCall |-> "nil", hit |-> FALSE, net |-> TRUE]
       /\ opPc' = "returned"
       /\ conn' = conn

\* The caller's context is cancelled or its deadline passes during the call.
ContextFires ==
  /\ opPc \in {"rpc", "send", "read", "tail", "session"}
  /\ ctxErr = "nil"
  /\ ctxErr' \in {"Canceled", "DeadlineExceeded"}
  /\ UNCHANGED <<sessionVars, opVars, chunkSize, sent, streamEnd>>

\* do(req) of the REST client: http.Client.Do returns an error.
RestReturnsError ==
  /\ opPc = "rpc" /\ op \in RestOps
  /\ \E byCtx \in BOOLEAN :
       /\ byCtx => CtxDone
       /\ \E chain \in (IF byCtx THEN {CtxChain(ctxErr)} ELSE DoErrors) :
            opErr' = classifyTransportError(chain)
       /\ opCtx' = [opCtx EXCEPT !.hit = byCtx]
  /\ opPc' = "returned"
  /\ UNCHANGED <<sessionVars, op, opIn, rd, conn, chunkSize, ctxErr, sent, streamEnd>>

\* do(req) of the REST client returns a response; HealthCheck decodes it,
\* Version and doScan map a status other than 200 and decode a 200.
RestReturnsResponse ==
  /\ opPc = "rpc" /\ op \in RestOps
  /\ \E statusCode \in HTTPStatuses, decodes \in BOOLEAN :
       opErr' = IF op = "rest.HealthCheck"
                THEN (IF decodes THEN NilErr ELSE NewServiceError(statusCode, "decode"))
                ELSE IF statusCode # 200 THEN handleErrorResponse(statusCode, decodes)
                ELSE IF decodes THEN NilErr ELSE NewServiceError(statusCode, "decode")
  /\ opPc' = "returned"
  /\ UNCHANGED <<sessionVars, op, opIn, opCtx, rd, conn, chunkSize, ctxErr, sent, streamEnd>>

\* The unary RPC, or CloseAndRecv of a client stream, returns a response.
RpcReturnsResponse ==
  /\ opPc = "rpc" /\ op \in GrpcUnaryOps \cup GrpcStreamOps
  /\ opErr' = NilErr
  /\ opPc' = "returned"
  /\ UNCHANGED <<sessionVars, op, opIn, opCtx, rd, conn, chunkSize, ctxErr, sent, streamEnd>>

\* The unary RPC, or CloseAndRecv of a client stream, returns an error: a
\* status of the server, or the status of the context that is done.
RpcReturnsError ==
  /\ opPc = "rpc" /\ op \in GrpcUnaryOps \cup GrpcStreamOps
  /\ \E byCtx \in BOOLEAN :
       /\ byCtx => CtxDone
       /\ \E code \in (IF byCtx THEN {ctxErr} ELSE GrpcCodes) :
            opErr' = mapGRPCError(StatusErr(code))
       /\ opCtx' = [opCtx EXCEPT !.hit = byCtx]
  /\ opPc' = "returned"
  /\ UNCHANGED <<sessionVars, op, opIn, rd, conn, chunkSize, ctxErr, sent, streamEnd>>

\* The errors stream.Send returns: io.EOF when the stream has ended, a status
\* the client side generates, the status of the context that is done.
SendErrors ==
  {PlainErr("EOF"), StatusErr("ResourceExhausted")}
  \cup (IF CtxDone THEN {StatusErr(ctxErr)} ELSE {})

\* A failed Send is the context's doing when the context is done and the
\* error is its status, or io.EOF of the stream it ended.
ByContext(err) == CtxDone /\ err \in {StatusErr(ctxErr), PlainErr("EOF")}

\* ScanStream: sendChunks returns nil.
StreamSendOk ==
  /\ opPc = "send"
  /\ sent' = SendLog(sendChunks(Payload(opIn.dataLen), opIn.filename, chunkSize), 1, FALSE)
  /\ opPc' = "rpc"
  /\ UNCHANGED <<sessionVars, op, opIn, opErr, opCtx, rd, conn, chunkSize, ctxErr, streamEnd>>

\* ScanStream: the k-th Send of sendChunks fails with err. sendChunks returns
\* the error of the Send of empty data as it is, and maps the others;
\* ScanStream returns what sendChunks returns.
StreamSendFails ==
  /\ opPc = "send"
  /\ LET reqs == sendChunks(Payload(opIn.dataLen), opIn.filename, chunkSize)
     IN \E k \in 1..Len(reqs) : sent' = SendLog(SubSeq(reqs, 1, k), 1, TRUE)
  /\ \E err \in SendErrors :
       /\ opErr' = IF opIn.dataLen = 0 THEN err ELSE mapGRPCError(err)
       /\ opCtx' = [opCtx EXCEPT !.hit = ByContext(err)]
  /\ opPc' = "returned"
  /\ UNCHANGED <<sessionVars, op, opIn, rd, conn, chunkSize, ctxErr, streamEnd>>

\* ------------------------------------------------------- ScanStreamReader
\* What r.Read(buf) may return with pos bytes read so far: n bytes, at most
\* len(buf) = chunkSize, and readErr: io.EOF only when no byte is left after
\* the n, an error only of a reader, or an opened file, that fails.
\* ScanStreamFile reads an *os.File, which reports io.EOF with n = 0.
Reads ==
  { r \in [n : 0..Min(chunkSize, opIn.dataLen - rd.pos), readErr : {"nil", "EOF", "error"}] :
      /\ r.readErr = "EOF" => rd.pos + r.n = opIn.dataLen
      /\ r.readErr = "error" => (op \in GrpcReaderOps /\ ~opIn.ok)
      /\ (op = "grpc.ScanStreamFile" /\ r.readErr = "EOF") => r.n = 0
      /\ ~(r.n = 0 /\ r.readErr = "nil") }

\* The request ScanStreamReader builds from a read of n > 0 bytes.
ReaderReq(r) ==
  [Chunk |-> SubSeq(Payload(opIn.dataLen), rd.pos + 1, rd.pos + r.n),
   Filename |-> IF rd.first THEN opIn.filename ELSE NoName,
   IsLast |-> (r.readErr = "EOF")]

\* What follows the Send in the loop body: io.EOF breaks, an error returns.
AfterRead(r) ==
  /\ opPc' = CASE r.readErr = "EOF" -> "tail"
               [] r.readErr = "error" -> "returned"
               [] OTHER -> "read"
  /\ opErr' = IF r.readErr = "error" THEN NewValidationError("read") ELSE NilErr

\* A read of n > 0 bytes whose request is sent.
ReadChunk ==
  /\ opPc = "read"
  /\ \E r \in Reads :
       /\ r.n > 0
       /\ sent' = Append(sent, [req |-> ReaderReq(r), file |-> 1, ok |-> TRUE])
       /\ rd' = [pos |-> rd.pos + r.n, first |-> FALSE]
       /\ AfterRead(r)
  /\ UNCHANGED <<sessionVars, op, opIn, opCtx, conn, chunkSize, ctxErr, streamEnd>>

\* A read of n > 0 bytes whose Send fails.
ReadChunkSendFails ==
  /\ opPc = "read"
  /\ \E r \in Reads, err \in SendErrors :
       /\ r.n > 0
       /\ sent' = Append(sent, [req |-> ReaderReq(r), file |-> 1, ok |-> FALSE])
       /\ rd' = [pos |-> rd.pos + r.n, first |-> FALSE]
       /\ opErr' = mapGRPCError(err)
       /\ opCtx' = [opCtx EXCEPT !.hit = ByContext(err)]
  /\ opPc' = "returned"
  /\ UNCHANGED <<sessionVars, op, opIn, conn, chunkSize, ctxErr, streamEnd>>

\* A read of no bytes, with io.EOF or an error.
ReadNothing ==
  /\ opPc = "read"
  /\ \E r \in Reads :
       /\ r.n = 0
       /\ AfterRead(r)
  /\ UNCHANGED <<sessionVars, op, opIn, opCtx, rd, conn, chunkSize, ctxErr, sent, streamEnd>>

\* After the loop, nothing was read: the single empty last chunk is sent.
TailSendOk ==
  /\ opPc = "tail" /\ rd.first
  /\ sent' = Append(sent, [req |-> [Chunk |-> <<>>, Filename |-> opIn.filename, IsLast |-> TRUE],
                           file |-> 1, ok |-> TRUE])
  /\ opPc' = "rpc"
  /\ UNCHANGED <<sessionVars, op, opIn, opErr, opCtx, rd, conn, chunkSize, ctxErr, streamEnd>>

\* After the loop, nothing was read: the Send of the empty last chunk fails.
TailSendFails ==
  /\ opPc = "tail" /\ rd.first
  /\ sent' = Append(sent, [req |-> [Chunk |-> <<>>, Filename |-> opIn.filename, IsLast |-> TRUE],
                           file |-> 1, ok |-> FALSE])
  /\ \E err \in SendErrors :
       /\ opErr' = mapGRPCError(err)
       /\ opCtx' = [opCtx EXCEPT !.hit = ByContext(err)]
  /\ opPc' = "returned"
  /\ UNCHANGED <<sessionVars, op, opIn, rd, conn, chunkSize, ctxErr, streamEnd>>

\* After the loop, something was read: on to CloseAndRecv.
TailSkip ==
  /\ opPc = "tail" /\ ~rd.first
  /\ opPc' = "rpc"
  /\ UNCHANGED <<sessionVars, op, opIn, opErr, opCtx, rd, conn, chunkSize, ctxErr, sent, streamEnd>>

\* ------------------------------------- ScanMultiple, ScanMultipleCallback
\* The session of an opened ScanMultiple stream ends (the channel is closed):
\* ScanMultiple has returned the channel and a nil error, ScanMultipleCallback
\* returns nil after its range loop.
SessionEnds ==
  /\ opPc = "session"
  /\ opErr' = NilErr
  /\ opCtx' = [opCtx EXCEPT !.hit = CtxDone]
  /\ opPc' = "returned"
  /\ UNCHANGED <<sessionVars, op, opIn, rd, conn, chunkSize, ctxErr, sent, streamEnd>>

\* ----------------------------------------------------- NewClient, Close
LifecycleOps == {"rest.NewClient", "rest.Close", "grpc.NewClient", "grpc.Close"}

LifecycleFrame(o) ==
  /\ opPc = "idle" \/ (opPc = "returned" /\ op \in LifecycleOps)
  /\ op' = o
  /\ opIn' \in {in \in Inputs : in.dataLen = 0 /\ in.filename = NoName}
  /\ opCtx' = [atCall |-> "nil", hit |-> FALSE, net |-> FALSE]
  /\ opPc' = "returned"
  /\ sent' = <<>>
  /\ rd' = [pos |-> 0, first |-> TRUE]
  /\ ctxErr' = "nil"
  /\ UNCHANGED <<sessionVars, chunkSize, streamEnd>>

\* NewClient of the REST client: ok says that the base URL parses and has a
\* scheme and a host.
RestNewClient ==
  /\ LifecycleFrame("rest.NewClient")
  /\ opErr' = IF opIn'.ok THEN NilErr ELSE NewValidationError("url")
  /\ conn' = conn

\* Close of the REST client.
RestClose ==
  /\ LifecycleFrame("rest.Close")
  /\ opErr' = NilErr
  /\ conn' = conn

\* NewClient of the gRPC client: ok says that grpclib.NewClient succeeds.
GrpcNewClient ==
  /\ LifecycleFrame("grpc.NewClient")
  /\ opErr' = IF opIn'.ok THEN NilErr ELSE NewConnectionError("dial")
  /\ conn' = IF opIn'.ok THEN "open" ELSE conn

\* Close of the gRPC client returns what conn.Close() returns:
\* ErrClientConnClosing, a status error, when the connection is closed already.
GrpcClose ==
  /\ LifecycleFrame("grpc.Close")
  /\ opErr' = IF conn = "closed" THEN StatusErr("Canceled") ELSE NilErr
  /\ conn' = IF conn = "nil" THEN "nil" ELSE "closed"

\* -------------------------------------------------------------- CallSpec
InitCall ==
  /\ files = <<>>
  /\ chunkSize \in 1..MaxChunk
  /\ ctxErr = "nil"
  /\ smPc = "idle"
  /\ smErr = NilErr
  /\ sPc = "idle" /\ sIdx = 1
  /\ rPc = "idle" /\ rMsg = NoResp
  /\ results = <<>> /\ closed = FALSE /\ delivered = <<>>
  /\ sent = <<>> /\ closeSends = 0
  /\ streamEnd = "open"
  /\ srvHalf = FALSE /\ srvSent = 0 /\ spur = FALSE
  /\ down = <<>>
  /\ op = "none"
  /\ opIn = [dataLen |-> 0, filename |-> NoName, ok |-> TRUE, opens |-> TRUE]
  /\ opPc = "idle"
  /\ opErr = NilErr
  /\ opCtx = [atCall |-> "nil", hit |-> FALSE, net |-> FALSE]
  /\ rd = [pos |-> 0, first |-> TRUE]
  /\ conn \in {"nil", "open"}

NextCall ==
  \/ CallRejected \/ CallOnDoneContext \/ CallStarts \/ CallOpenFails
  \/ ContextFires
  \/ RestReturnsError \/ RestReturnsResponse
  \/ RpcReturnsResponse \/ RpcReturnsError
  \/ StreamSendOk \/ StreamSendFails
  \/ ReadChunk \/ ReadChunkSendFails \/ ReadNothing
  \/ TailSendOk \/ TailSendFails \/ TailSkip
  \/ SessionEnds
  \/ RestNewClient \/ RestClose \/ GrpcNewClient \/ GrpcClose

CallSpec == InitCall /\ [][NextCall]_vars

\* ------------------------------------------------ single calls: claims
\* The operation has returned.
Returned == opPc = "returned"

\* The concatenation of the chunks of the requests of log, in send order.
RECURSIVE Concat(_)
Concat(log) == IF log = <<>> THEN <<>> ELSE Head(log).req.Chunk \o Concat(Tail(log))

\* The requests of log carry payload in order, exactly one has IsLast and it
\* is the last one, and filename is on the first one and on no other.
WellFramed(log, payload, filename) ==
  /\ Len(log) >= 1
  /\ Concat(log) = payload
  /\ \A k \in 1..Len(log) : log[k].req.IsLast <=> (k = Len(log))
  /\ \A k \in 1..Len(log) : log[k].req.Filename = (IF k = 1 THEN filename ELSE NoName)

\* Every Send of the call succeeded and the send phase is over.
AllSent == opPc \in {"rpc", "returned"} /\ sent # <<>> /\ \A k \in 1..Len(sent) : sent[k].ok

\* C5, as stated: when the context of a call of the gRPC client is cancelled
\* or its deadline passes while the call is in flight, the call reports a
\* Timeout-kind error.
C5_InFlightCancelIsTimeout ==
  (Returned /\ op \in GrpcOps /\ opCtx.atCall = "nil" /\ opCtx.hit) => IsTimeoutError(opErr)

\* C6, as stated: a scan operation called, with any input, under a context
\* that is already done returns a Timeout-kind error.
C6_DoneContextIsTimeout ==
  (Returned /\ op \in ScanOps /\ opCtx.atCall # "nil") => IsTimeoutError(opErr)

\* C6, amended: a scan operation called under a context that is already done
\* returns a Timeout-kind error when its input passes the local validation,
\* and the Validation-kind error of the local validation otherwise.
C6_DoneContextIsTimeoutIfValid ==
  (Returned /\ op \in ScanOps /\ opCtx.atCall # "nil")
    => IF LocalError(op, opIn) = NilErr
       THEN IsTimeoutError(opErr)
       ELSE opErr = LocalError(op, opIn) /\ IsValidationError(opErr)

\* ScanStream called under a cancelled context returned a Timeout error.
C6_Witness ==
  /\ Returned /\ op = "grpc.ScanStream" /\ opCtx.atCall = "Canceled"
  /\ IsTimeoutError(opErr)

\* C7: the chunks sendChunks sends are at most chunkSize bytes each, make up
\* the payload in send order, exactly one has IsLast and it is the last one,
\* and the filename is on the first chunk only.
C7_SendChunksFraming ==
  (op = "grpc.ScanStream" /\ AllSent)
    => /\ \A k \in 1..Len(sent) : Len(sent[k].req.Chunk) <= chunkSize
       /\ WellFramed(sent, Payload(opIn.dataLen), opIn.filename)

\* A payload was sent in several chunks, the last one shorter than chunkSize.
C7_Witness ==
  /\ op = "grpc.ScanStream" /\ AllSent
  /\ Len(sent) >= 2 /\ Len(sent[Len(sent)].req.Chunk) < chunkSize
  /\ opIn.filename # NoName

\* C8, as stated: whatever the reader does, the chunks ScanStreamReader has
\* sent when the reader is exhausted make up the bytes read, exactly one has
\* IsLast and it is the last one, and the filename is on the first chunk only.
C8_ReaderFraming ==
  (op \in GrpcReaderOps /\ opPc = "rpc" /\ AllSent)
    => WellFramed(sent, Payload(rd.pos), opIn.filename)

\* C9: a zero-length payload on a chunked path is sent as exactly one chunk,
\* empty, with IsLast and with the filename.
C9_EmptyPayloadOneChunk ==
  (op \in GrpcStreamOps /\ opIn.dataLen = 0 /\ (opPc = "rpc" \/ sent # <<>>))
    => /\ Len(sent) = 1
       /\ sent[1].req = [Chunk |-> <<>>, Filename |-> opIn.filename, IsLast |-> TRUE]

\* ScanStream sent the empty payload of a named file.
C9_Witness ==
  /\ op = "grpc.ScanStream" /\ opIn.dataLen = 0 /\ opIn.filename # NoName
  /\ opPc = "rpc" /\ Len(sent) = 1

\* C10, as stated: a non-nil error returned by a public operation is an SDK
\* error of one of the four kinds.
C10_OnlySdkErrors ==
  (Returned /\ opErr # NilErr)
    => /\ opErr.kind = "sdk"
       /\ opErr.Code \in {CodeConnection, CodeTimeout, CodeValidation, CodeService}

\* The operations that take the path of a file.
FilePathOps ==
  {"rest.ScanFilePath", "rest.StreamScanFile", "grpc.ScanFilePath", "grpc.ScanStreamFile"}

\* The caller's input is invalid: a base URL without scheme or host, a
\* declared size that is not positive, an empty payload of the unary scan, a
\* file that cannot be opened or cannot be read.
InvalidInput(o, in) ==
  \/ o \in {"rest.NewClient", "rest.StreamScan"} /\ ~in.ok
  \/ o = "grpc.ScanFile" /\ in.dataLen = 0
  \/ o \in FilePathOps /\ ~in.ok

\* C16: a call with invalid input returns a Validation error and has made no
\* HTTP request and no RPC, whatever the context and the server do.
C16_InvalidInputBeforeNetwork ==
  (Returned /\ InvalidInput(op, opIn)) => (IsValidationError(opErr) /\ ~opCtx.net)

\* C17: every call of Close, of either client, the first and the later ones
\* and the one on a client without a connection, returns no error.
C17_CloseReturnsNoError ==
  (Returned /\ op \in {"rest.Close", "grpc.Close"}) => opErr = NilErr

\* ====================================================== pure functions
\* The pure functions of the SDK are applied, once each behaviour, to inputs
\* drawn from the sets below; op names the function applied, opIn its input
\* and opErr its result.
FnFrame(f, in) ==
  /\ opPc = "idle"
  /\ op' = f
  /\ opIn' = in
  /\ opPc' = "returned"
  /\ UNCHANGED <<sessionVars, chunkSize, ctxErr, sent, streamEnd, opCtx, rd, conn>>

\* The errors given to mapGRPCError: nil, errors that are no gRPC status, and
\* a status of every code of the vocabulary and of a code outside it.
RawGrpcErrors ==
  {NilErr, PlainErr("EOF"), PlainErr("other")}
  \cup { StatusErr(c) : c \in GrpcCodes \cup {"Code99"} }

ApplyMapGRPCError ==
  \E err \in RawGrpcErrors :
    /\ FnFrame("mapGRPCError", err)
    /\ opErr' = mapGRPCError(err)

\* The HTTP-equivalent status of the codes that map to a Service error.
ServiceTable ==
  [Unknown |-> 500, NotFound |-> 404, AlreadyExists |-> 409, PermissionDenied |-> 403,
   ResourceExhausted |-> 429, FailedPrecondition |-> 500, Aborted |-> 500,
   OutOfRange |-> 500, Unimplemented |-> 501, Internal |-> 500, DataLoss |-> 500,
   Unauthenticated |-> 401, Code99 |-> 500]

\* C11: mapGRPCError maps nil to nil, an error that is no gRPC status to
\* Connection, InvalidArgument to Validation, DeadlineExceeded and Canceled to
\* Timeout, Unavailable to Connection, Internal to Service with 500 and every
\* other code to Service with its HTTP-equivalent status.
C11_MapGRPCErrorTable ==
  (op = "mapGRPCError") =>
    CASE opIn.kind = "nil" -> opErr = NilErr
      [] opIn.kind = "plain" -> IsConnectionError(opErr)
      [] opIn.cause = "InvalidArgument" -> IsValidationError(opErr)
      [] opIn.cause \in {"DeadlineExceeded", "Canceled"} -> IsTimeoutError(opErr)
      [] opIn.cause = "Unavailable" -> IsConnectionError(opErr)
      [] OTHER -> IsServiceError(opErr) /\ opErr.StatusCode = ServiceTable[opIn.cause]

\* ResourceExhausted was mapped to a Service error with status 429.
C11_Witness ==
  /\ op = "mapGRPCError" /\ opIn = StatusErr("ResourceExhausted")
  /\ IsServiceError(opErr) /\ opErr.StatusCode = 429

\* The responses given to handleErrorResponse: a status other than 200 and a
\* body that decodes as JSON or does not.
ErrorResponses == [statusCode : (HTTPStatuses \ {200}) \cup {201, 404, 503}, decodes : BOOLEAN]

ApplyHandleErrorResponse ==
  \E resp \in ErrorResponses :
    /\ FnFrame("handleErrorResponse", resp)
    /\ opErr' = handleErrorResponse(resp.statusCode, resp.decodes)

\* C12: handleErrorResponse returns Service with the HTTP status when the body
\* does not decode; otherwise Validation for 400 and 413, Timeout for 499 and
\* 504, and Service with the HTTP status for 502 and every other status.
C12_HandleErrorResponseTable ==
  (op = "handleErrorResponse") =>
    IF ~opIn.decodes
    THEN IsServiceError(opErr) /\ opErr.StatusCode = opIn.statusCode
    ELSE CASE opIn.statusCode \in {400, 413} -> IsValidationError(opErr)
           [] opIn.statusCode \in {499, 504} -> IsTimeoutError(opErr)
           [] OTHER -> IsServiceError(opErr) /\ opErr.StatusCode = opIn.statusCode

\* A 413 response with a JSON body was mapped to a Validation error.
C12_Witness ==
  /\ op = "handleErrorResponse" /\ opIn.statusCode = 413 /\ opIn.decodes
  /\ IsValidationError(opErr)

\* C13 as stated: a 502 response yields a Connection error.
C13_BadGatewayIsConnection ==
  (op = "handleErrorResponse" /\ opIn.statusCode = 502) => IsConnectionError(opErr)

\* C13: a 502 response, whether its body decodes or not, yields a Service
\* error that carries the status code 502, never a Connection error.
C13_BadGatewayIsService ==
  (op = "handleErrorResponse" /\ opIn.statusCode = 502) =>
    /\ IsServiceError(opErr) /\ opErr.StatusCode = 502
    /\ ~IsConnectionError(opErr)

\* A 502 response with a JSON body was mapped to a Service error.
C13_Witness ==
  /\ op = "handleErrorResponse" /\ opIn.statusCode = 502 /\ opIn.decodes
  /\ IsServiceError(opErr)

\* The errors given to classifyTransportError: the bare context errors, and
\* a *url.Error (all http.Client.Do returns) around at most MaxWrap wrapping
\* errors and an innermost error.
Wrappers == {"op", "dns", "other"}
Leaves == {"ctxCanceled", "ctxDeadline", "timeout", "dns", "other"}
TransportErrors ==
  {<<"ctxCanceled">>, <<"ctxDeadline">>}
  \cup { <<"url">> \o w \o <<l>> :
           w \in UNION { [1..n -> Wrappers] : n \in 0..MaxWrap }, l \in Leaves }

ApplyClassifyTransportError ==
  \E chain \in TransportErrors :
    /\ FnFrame("classifyTransportError", chain)
    /\ opErr' = classifyTransportError(chain)

\* The failure is a cancelled or deadline-exceeded context.
CtxFailure(chain) == Has(chain, "ctxCanceled") \/ Has(chain, "ctxDeadline")

\* The failure is a DNS-resolution failure or a network operation failure.
NetFailure(chain) == Has(chain, "op") \/ Has(chain, "dns")

\* C14 as stated: every DNS or network operation failure that is not a done
\* context yields a Connection error.
C14_NetFailureIsConnection ==
  (op = "classifyTransportError" /\ NetFailure(opIn) /\ ~CtxFailure(opIn)) =>
    IsConnectionError(opErr)

\* C14: classifyTransportError returns Timeout exactly when the failure is a
\* cancelled or deadline-exceeded context or the *url.Error reports Timeout()
\* (a network operation or DNS lookup that timed out included), Connection for
\* every other failure, never Service or Validation, and exactly one kind.
C14_ClassifyTransportError ==
  (op = "classifyTransportError") =>
    /\ IsTimeoutError(opErr) <=> (CtxFailure(opIn) \/ IsTimeout(opIn))
    /\ IsConnectionError(opErr) <=> ~(CtxFailure(opIn) \/ IsTimeout(opIn))
    /\ ~IsServiceError(opErr) /\ ~IsValidationError(opErr)
    /\ IsTimeoutError(opErr) # IsConnectionError(opErr)

\* A network operation that timed out was classified as Timeout.
C14_Witness ==
  /\ op = "classifyTransportError" /\ opIn = <<"url", "op", "timeout">>
  /\ IsTimeoutError(opErr)

\* The errors given to the Is...Error predicates: an error of each
\* constructor, without a cause or with an SDK error of any kind as its
\* Cause (named by its code), and errors foreign to the SDK; each behind
\* 0..MaxWrap decorators.
SdkErrors(cause) ==
  {NewConnectionError(cause), NewTimeoutError(cause), NewValidationError(cause),
   NewServiceError(502, cause)}
ForeignErrors == {NilErr, PlainErr("other"), StatusErr("Unavailable")}
ErrorBases ==
  UNION { SdkErrors(c) : c \in {"", CodeConnection, CodeTimeout, CodeValidation, CodeService} }
  \cup ForeignErrors

RECURSIVE Wrapped(_, _)
Wrapped(err, depth) == IF depth = 0 THEN err ELSE Wrap(Wrapped(err, depth - 1))

\* The four predicates are applied to one error; opErr holds their answers.
ApplyIsError ==
  \E base \in ErrorBases, depth \in 0..MaxWrap :
    /\ FnFrame("IsError", [base |-> base, depth |-> depth])
    /\ opErr' = [connection |-> IsConnectionError(Wrapped(base, depth)),
                 timeout |-> IsTimeoutError(Wrapped(base, depth)),
                 validation |-> IsValidationError(Wrapped(base, depth)),
                 service |-> IsServiceError(Wrapped(base, depth))]

\* C15: IsXError is true for an error of the constructor of kind X, bare or
\* behind any number of decorators, and false for an SDK error of another
\* kind and for a foreign error; at most one of the four predicates is true.
C15_IsErrorPredicates ==
  (op = "IsError") =>
    /\ opErr.connection <=> (opIn.base.kind = "sdk" /\ opIn.base.Code = CodeConnection)
    /\ opErr.timeout <=> (opIn.base.kind = "sdk" /\ opIn.base.Code = CodeTimeout)
    /\ opErr.validation <=> (opIn.base.kind = "sdk" /\ opIn.base.Code = CodeValidation)
    /\ opErr.service <=> (opIn.base.kind = "sdk" /\ opIn.base.Code = CodeService)
    /\ Cardinality({k \in DOMAIN opErr : opErr[k]}) <= 1

\* A Validation error behind MaxWrap decorators answered IsValidationError.
C15_Witness ==
  /\ op = "IsError" /\ opIn.base = NewValidationError("") /\ opIn.depth = MaxWrap
  /\ opErr.validation /\ ~opErr.service

\* ------------------------------------------ dial options of the gRPC client
\* The options given to the gRPC NewClient: WithTransportCredentials(creds),
\* WithDialOptions(grpc.WithTransportCredentials(creds)), WithDialOptions of
\* another dial option, and an option that touches no dial option.
ClientOptions ==
  {"WithTransportCredentials", "WithDialOptions.creds", "WithDialOptions.other", "WithTimeout"}

\* opt(c) for the fields dialOpts and hasTransportCreds of the client; a dial
\* option is "creds" (the caller's credentials), "insecure", "other" or
\* "callOptions" (WithDefaultCallOptions).
ApplyOption(c, opt) ==
  CASE opt = "WithTransportCredentials" ->
         [dialOpts |-> Append(c.dialOpts, "creds"), hasTransportCreds |-> TRUE]
    [] opt = "WithDialOptions.creds" ->
         [c EXCEPT !.dialOpts = Append(c.dialOpts, "creds")]
    [] opt = "WithDialOptions.other" ->
         [c EXCEPT !.dialOpts = Append(c.dialOpts, "other")]
    [] OTHER -> c

RECURSIVE ApplyOptions(_, _)
ApplyOptions(c, opts) ==
  IF opts = <<>> THEN c ELSE ApplyOptions(ApplyOption(c, Head(opts)), Tail(opts))

\* The dial options NewClient hands to grpclib.NewClient.
NewClientDialOpts(opts) ==
  LET c == ApplyOptions([dialOpts |-> <<>>, hasTransportCreds |-> FALSE], opts)
      d == IF ~c.hasTransportCreds THEN Append(c.dialOpts, "insecure") ELSE c.dialOpts
  IN Append(d, "callOptions")

\* NewClient builds its dial options from at most MaxOpts options; opErr
\* holds the dial options.
ApplyNewClientOptions ==
  \E opts \in UNION { [1..n -> ClientOptions] : n \in 0..MaxOpts } :
    /\ FnFrame("grpc.NewClient.dialOpts", opts)
    /\ opErr' = NewClientDialOpts(opts)

\* The caller supplied transport credentials, by either option.
SuppliesCredentials(opts) ==
  \E k \in 1..Len(opts) : opts[k] \in {"WithTransportCredentials", "WithDialOptions.creds"}

\* C18: the insecure credentials are among the dial options exactly when the
\* caller supplied no transport credentials; when the caller supplied some,
\* no insecure option follows them.
C18_InsecureOnlyWithoutCredentials ==
  (op = "grpc.NewClient.dialOpts") =>
    (Has(opErr, "insecure") <=> ~SuppliesCredentials(opIn))

\* ------------------------------------------- timeouts of the REST client
\* Durations and deadlines are whole ticks from the time of the call, at most
\* MaxTime; 0 is Go's "no timeout" of http.Client.Timeout and stands for "no
\* deadline" of a context.
\* The options given to the REST NewClient: WithTimeout(d), WithHTTPClient of
\* a client whose Timeout is d, WithHTTPClient(nil), WithHeaders.
RestClientOptions ==
  [opt : {"WithTimeout", "WithHTTPClient"}, d : 0..MaxTime]
  \cup [opt : {"WithHTTPClient.nil", "WithHeaders"}, d : {0}]

\* opt(c) for the fields httpClient and timeout of the client.
RestApplyOption(c, o) ==
  CASE o.opt = "WithTimeout" -> IF o.d > 0 THEN [c EXCEPT !.timeout = o.d] ELSE c
    [] o.opt = "WithHTTPClient" -> [c EXCEPT !.httpClient = [set |-> TRUE, Timeout |-> o.d]]
    [] o.opt = "WithHTTPClient.nil" -> [c EXCEPT !.httpClient = [set |-> FALSE, Timeout |-> 0]]
    [] OTHER -> c

RECURSIVE RestApplyOptions(_, _)
RestApplyOptions(c, opts) ==
  IF opts = <<>> THEN c ELSE RestApplyOptions(RestApplyOption(c, Head(opts)), Tail(opts))

\* The client NewClient returns for a valid base URL.
NewClientConfig(opts) ==
  LET c == RestApplyOptions([httpClient |-> [set |-> FALSE, Timeout |-> 0],
                             timeout |-> defaultTimeout], opts)
  IN IF ~c.httpClient.set
     THEN [c EXCEPT !.httpClient = [set |-> TRUE, Timeout |-> c.timeout]]
     ELSE c

\* The time at which c.httpClient.Do gives up a request made under a context
\* whose deadline is deadline: the earlier of the client's Timeout and the
\* deadline, where they are set; 0 when nothing bounds the request.
RequestDeadline(c, deadline) ==
  CASE c.httpClient.Timeout = 0 -> deadline
    [] deadline = 0 -> c.httpClient.Timeout
    [] OTHER -> Min(c.httpClient.Timeout, deadline)

\* An operation of a client made with at most MaxOpts options, under a
\* context with or without a deadline; opErr holds the client's timeout and
\* the time that bounds the request.
ApplyRestRequest ==
  \E opts \in UNION { [1..n -> RestClientOptions] : n \in 0..MaxOpts }, deadline \in 0..MaxTime :
    /\ FnFrame("rest.request", [opts |-> opts, deadline |-> deadline])
    /\ opErr' = [timeout |-> NewClientConfig(opts).timeout,
                 bound |-> RequestDeadline(NewClientConfig(opts), deadline)]

\* C19: every REST operation is bounded by the earlier of the configured
\* default timeout and the deadline of the caller's context, whatever the
\* options of the client.
C19_RestBoundedByTimeout ==
  (op = "rest.request") =>
    opErr.bound = (IF opIn.deadline = 0 THEN opErr.timeout
                   ELSE Min(opErr.timeout, opIn.deadline))

\* ------------------------------------------- timeouts of the gRPC client
\* WithTimeout(d) of the gRPC client, applied to the field timeout.
WithTimeout(timeout, d) == IF d > 0 THEN d ELSE timeout

\* The timeout of a client made with the options WithTimeout(ds[1]), ...
RECURSIVE ClientTimeout(_, _)
ClientTimeout(timeout, ds) ==
  IF ds = <<>> THEN timeout ELSE ClientTimeout(WithTimeout(timeout, Head(ds)), Tail(ds))

\* The contexts a caller passes at time now: with or without a deadline, live
\* or done; one whose deadline has passed is done, and only such a one is
\* done with DeadlineExceeded.
Contexts(now) ==
  { ctx \in [hasDeadline : BOOLEAN, deadline : 0..MaxTime,
             err : {"nil", "Canceled", "DeadlineExceeded"}] :
      /\ ctx.hasDeadline <=> ctx.deadline > 0
      /\ (ctx.hasDeadline /\ ctx.deadline <= now) => ctx.err # "nil"
      /\ ctx.err = "DeadlineExceeded" => (ctx.hasDeadline /\ ctx.deadline <= now) }

\* A contextWithTimeout that applies the default timeout to every context.
contextWithTimeout_Always(timeout, ctx, now) ==
  [hasDeadline |-> TRUE,
   deadline |-> IF ctx.hasDeadline THEN Min(ctx.deadline, now + timeout) ELSE now + timeout,
   err |-> ctx.err]

\* The context contextWithTimeout derives at time now: context.WithCancel(ctx)
\* has the deadline of ctx, context.WithTimeout(ctx, timeout) of a context
\* without deadline has now + timeout; either is done when ctx is.
contextWithTimeout(timeout, ctx, now) ==
  IF ctx.hasDeadline
  THEN ctx
  ELSE [hasDeadline |-> TRUE, deadline |-> now + timeout, err |-> ctx.err]

\* A call at time now under ctx, of a client made with at most MaxOpts
\* WithTimeout options; opErr holds the client's timeout and the derived
\* context.
ApplyContextWithTimeout ==
  \E ds \in UNION { [1..n -> 0..MaxTime] : n \in 0..MaxOpts }, now \in 0..MaxTime :
    \E ctx \in Contexts(now) :
      /\ FnFrame("contextWithTimeout", [ds |-> ds, now |-> now, ctx |-> ctx])
      /\ opErr' = [timeout |-> ClientTimeout(defaultTimeout, ds),
                   ctx |-> contextWithTimeout(ClientTimeout(defaultTimeout, ds), ctx, now)]

\* C20: the derived context always has a deadline: the caller's, unchanged,
\* when the caller's context has one, and otherwise the time of the call plus
\* the client's timeout; it is done whenever the caller's context is.
C20_DerivedContextDeadline ==
  (op = "contextWithTimeout") =>
    /\ opErr.ctx.hasDeadline
    /\ opIn.ctx.hasDeadline => opErr.ctx.deadline = opIn.ctx.deadline
    /\ ~opIn.ctx.hasDeadline => opErr.ctx.deadline = opIn.now + opErr.timeout
    /\ opErr.timeout > 0
    /\ opIn.ctx.err # "nil" => opErr.ctx.err # "nil"

\* A caller's deadline later than the client's timeout was kept.
C20_Witness ==
  /\ op = "contextWithTimeout" /\ opIn.ctx.hasDeadline /\ opIn.ctx.err = "nil"
  /\ opIn.ctx.deadline > opIn.now + opErr.timeout
  /\ opErr.ctx.deadline = opIn.ctx.deadline

\* ------------------------------------------------------------ HealthCheck
\* A REST HealthCheck that looks at the message only.
RestHealthCheckResult_AnyStatus(statusCode, decodes, message) ==
  IF ~decodes
  THEN [err |-> NewServiceError(statusCode, "decode"), Healthy |-> FALSE, Message |-> ""]
  ELSE [err |-> NilErr, Healthy |-> (message = "ok"), Message |-> message]

\* What the REST HealthCheck returns for a response with status statusCode
\* whose body decodes as JSON (with the message field message) or does not.
RestHealthCheckResult(statusCode, decodes, message) ==
  IF ~decodes
  THEN [err |-> NewServiceError(statusCode, "decode"), Healthy |-> FALSE, Message |-> ""]
  ELSE [err |-> NilErr, Healthy |-> (statusCode = 200 /\ message = "ok"), Message |-> message]

\* What the gRPC HealthCheck returns for a response with the fields status
\* and message.
GrpcHealthCheckResult(status, message) ==
  [err |-> NilErr, Healthy |-> (status = "healthy"), Message |-> message]

\* The texts a server puts in the message or status field.
HealthTexts == {"ok", "OK", "healthy", "Healthy", "unavailable", ""}

ApplyRestHealthCheck ==
  \E statusCode \in HTTPStatuses, decodes \in BOOLEAN, message \in HealthTexts :
    /\ FnFrame("rest.HealthCheck", [statusCode |-> statusCode, decodes |-> decodes,
                                    message |-> message])
    /\ opErr' = RestHealthCheckResult(statusCode, decodes, message)

ApplyGrpcHealthCheck ==
  \E status \in HealthTexts, message \in HealthTexts :
    /\ FnFrame("grpc.HealthCheck", [status |-> status, message |-> message])
    /\ opErr' = GrpcHealthCheckResult(status, message)

\* C22: the REST HealthCheck returns Healthy = true exactly for status 200
\* with the message "ok", and a result with Healthy = false and no error for
\* every other response whose body decodes; the gRPC HealthCheck returns
\* Healthy = true exactly for the status "healthy".
C22_HealthyRule ==
  /\ (op = "rest.HealthCheck" /\ opIn.decodes) =>
        /\ opErr.err = NilErr
        /\ opErr.Healthy <=> (opIn.statusCode = 200 /\ opIn.message = "ok")
        /\ opErr.Message = opIn.message
  /\ (op = "grpc.HealthCheck") =>
        /\ opErr.err = NilErr
        /\ opErr.Healthy <=> (opIn.status = "healthy")

\* A 502 response with the message "ok" gave an unhealthy result, no error.
C22_Witness ==
  /\ op = "rest.HealthCheck" /\ opIn.statusCode = 502 /\ opIn.decodes /\ opIn.message = "ok"
  /\ opErr.err = NilErr /\ ~opErr.Healthy

\* ---------------------------------------------- headers of the REST client
\* A map[string]string is a reference: heap is the list of the maps
\* allocated, a map value is an index of heap, 0 is the nil map. A map gives
\* every key a value or "absent".
HeaderMaps == [{"X-API-Key", "X-Trace"} -> {"absent", "v1", "v2"}]

\* A WithHeaders that stores the caller's map itself.
WithHeaders_Alias(heap, headers) == [heap |-> heap, headers |-> headers]

\* opt(c) of WithHeaders(headers): the heap after it and c.headers, a new map
\* that gets every entry of headers, or nil for nil.
WithHeaders(heap, headers) ==
  IF headers = 0
  THEN [heap |-> heap, headers |-> 0]
  ELSE [heap |-> Append(heap, [k \in DOMAIN heap[headers] |-> heap[headers][k]]),
        headers |-> Len(heap) + 1]

\* The caller's statements m[key] = val and delete(m, key) on the map m, in
\* order.
RECURSIVE Mutate(_, _, _)
Mutate(heap, m, muts) ==
  IF muts = <<>> THEN heap
  ELSE Mutate([heap EXCEPT ![m] = [@ EXCEPT ![Head(muts).key] = Head(muts).val]],
              m, Tail(muts))

\* The headers newRequest sets from c.headers.
RequestHeaders(heap, headers) ==
  IF headers = 0 THEN [k \in {"X-API-Key", "X-Trace"} |-> "absent"] ELSE heap[headers]

\* NewClient with WithHeaders(m), m holding the entries of headers, a request,
\* at most MaxMuts mutations of m by the caller, and a request again; opErr
\* holds the headers of the two requests.
ApplyWithHeaders ==
  \E headers \in HeaderMaps,
     muts \in UNION { [1..n -> [key : {"X-API-Key", "X-Trace"}, val : {"absent", "v1", "v2"}]] :
                      n \in 0..MaxMuts } :
    LET c == WithHeaders(<<headers>>, 1)
    IN /\ FnFrame("WithHeaders", [headers |-> headers, muts |-> muts])
       /\ opErr' = [before |-> RequestHeaders(c.heap, c.headers),
                    after |-> RequestHeaders(Mutate(c.heap, 1, muts), c.headers)]

\* C23: the headers a request carries are the entries the caller's map had
\* when NewClient was called, whatever the caller does to its map afterwards.
C23_HeadersCopied ==
  (op = "WithHeaders") => (opErr.before = opIn.headers /\ opErr.after = opIn.headers)

\* The caller deleted an entry of its map and the request still carries it.
C23_Witness ==
  /\ op = "WithHeaders" /\ Len(opIn.muts) = MaxMuts
  /\ opIn.muts[MaxMuts].val = "absent"
  /\ opIn.headers[opIn.muts[MaxMuts].key] = "v1"
  /\ opErr.after[opIn.muts[MaxMuts].key] = "v1"

\* ------------------------------------------- options of the gRPC client
\* A WithChunkSize that stores whatever size it is given.
WithChunkSize_Unchecked(size0, size) == size

\* WithChunkSize(size), applied to the field chunkSize.
WithChunkSize(size0, size) == IF size > 0 THEN size ELSE size0

\* WithMaxMessageSize(size), applied to the field maxMessageSize.
WithMaxMessageSize(size0, size) == IF size > 0 THEN size ELSE size0

\* The fields of the client NewClient makes with the options opts, each
\* [opt, v] with v the argument of the option.
RECURSIVE GrpcNewClientConfig(_, _)
GrpcNewClientConfig(c, opts) ==
  IF opts = <<>> THEN c
  ELSE LET o == Head(opts)
           c1 == CASE o.opt = "WithTimeout" -> [c EXCEPT !.timeout = WithTimeout(@, o.v)]
                   [] o.opt = "WithChunkSize" -> [c EXCEPT !.chunkSize = WithChunkSize(@, o.v)]
                   [] OTHER -> [c EXCEPT !.maxMessageSize = WithMaxMessageSize(@, o.v)]
       IN GrpcNewClientConfig(c1, Tail(opts))

\* NewClient with at most MaxOpts options, whose arguments are negative, zero
\* or positive; opErr holds the fields of the client.
ApplyGrpcOptions ==
  \E opts \in UNION { [1..n -> [opt : {"WithTimeout", "WithChunkSize", "WithMaxMessageSize"},
                                 v : (0 - 1)..MaxTime]] : n \in 0..MaxOpts } :
    /\ FnFrame("grpc.NewClient.config", opts)
    /\ opErr' = GrpcNewClientConfig([timeout |-> defaultTimeout,
                                     chunkSize |-> defaultChunkSize,
                                     maxMessageSize |-> defaultMaxMessageSize], opts)

\* The value an option with a positive, zero or negative argument leaves in a
\* field: the last positive argument given for the field, else the default.
RECURSIVE Retained(_, _, _)
Retained(default, name, opts) ==
  IF opts = <<>> THEN default
  ELSE LET o == opts[Len(opts)]
       IN IF o.opt = name /\ o.v > 0 THEN o.v
          ELSE Retained(default, name, SubSeq(opts, 1, Len(opts) - 1))

\* C24: an option with a non-positive argument leaves the retained value as
\* it is, so the client has timeout > 0, chunkSize >= 1 and maxMessageSize >=
\* 1 after any options, of either client, and sendChunks of a payload ends
\* after at most one Send per byte.
C24_OptionsKeepPositive ==
  /\ (op = "grpc.NewClient.config") =>
        /\ opErr.timeout = Retained(defaultTimeout, "WithTimeout", opIn)
        /\ opErr.chunkSize = Retained(defaultChunkSize, "WithChunkSize", opIn)
        /\ opErr.maxMessageSize = Retained(defaultMaxMessageSize, "WithMaxMessageSize", opIn)
        /\ opErr.timeout > 0 /\ opErr.chunkSize >= 1 /\ opErr.maxMessageSize >= 1
        /\ Len(sendChunks(Payload(MaxData), NoName, opErr.chunkSize)) <= MaxData
  /\ (op = "rest.request") => opErr.timeout > 0

\* A positive chunk size was given and then a non-positive one: the positive
\* one is kept.
C24_Witness ==
  /\ op = "grpc.NewClient.config" /\ Len(opIn) = MaxOpts
  /\ opIn[MaxOpts - 1] = [opt |-> "WithChunkSize", v |-> 1]
  /\ opIn[MaxOpts].opt = "WithChunkSize" /\ opIn[MaxOpts].v <= 0
  /\ opErr.chunkSize = 1

InitFn == InitCall

NextFn ==
  \/ ApplyMapGRPCError
  \/ ApplyHandleErrorResponse
  \/ ApplyClassifyTransportError
  \/ ApplyIsError
  \/ ApplyNewClientOptions
  \/ ApplyRestRequest
  \/ ApplyContextWithTimeout
  \/ ApplyRestHealthCheck
  \/ ApplyGrpcHealthCheck
  \/ ApplyWithHeaders
  \/ ApplyGrpcOptions

FnSpec == InitFn /\ [][NextFn]_vars

====
